---- MODULE Spec2Model ----
(***************************************************************************)
(* Verification model of the mbon crate.                                   *)
(*                                                                         *)
(*  Spec          the blocking FileBuffer (src/buffer/sync_buf.rs) over    *)
(*                the shared Buffer block cache (src/buffer.rs)            *)
(*  SpecReadAll   the blocking FileBuffer read front to back, no writes    *)
(***************************************************************************)
EXTENDS Integers, Sequences, FiniteSets, TLC

\* ------------------------------------------------------------------ bounds
MaxBlockSize == 3
MaxMaxBlocks == 2
MaxFileLen == 4
MaxPos == 6
MaxReadLen == 3
MaxWriteLen == 3
MaxOps == 3
MaxDeepOps == 4
MaxABlockSize == 2
MaxAMaxBlocks == 1
MaxAFileLen == 2
MaxAPos == 3
MaxALen == 2
MaxFuel == 2
MaxAOps == 4
NClients == 2
MaxReqs == 3
MaxItems == 2
MaxCut == 7
MaxDelta == 1
MaxFileItems == 3
MaxCount == 2
MaxBytes == 5
MaxEntries == 2
MaxKey == 2
MaxFetches == 2
MaxSlots == 2

\* Option<u64>::None of FileBuffer.cursor
None == 0 - 1

\* ------------------------------------------------------------------ state
VARIABLES
    blocks,        \* Buffer.blocks: block id -> [data, access]
    modified,      \* Buffer.modified
    cursor,        \* Buffer.cursor, the logical cursor
    access_count,  \* Buffer.access_count
    block_size,    \* Buffer.block_size
    max_blocks,    \* Buffer.max_blocks
    ideal_blocks,  \* Buffer.ideal_blocks
    pcursor,       \* FileBuffer.cursor, the tracked physical cursor (None or a position)
    file,          \* the bytes of the backing stream F
    fpos,          \* the position of the backing stream F
    naive,         \* reference: the bytes of a naive writer given the same calls
    last,          \* the last public call: what it was, where, what it returned
    nops,          \* number of public calls made
    acc,           \* SpecReadAll: the bytes returned so far
    astate,        \* FileBufferAsync.state
    fpend,         \* backing stream: the target of the seek in flight, or None
    want,          \* reference: per block, the bytes the last write left in it
    feature,       \* the build: "sync" (std::sync::mpsc) or "async" (async_channel)
    chan,          \* the request channel: its queue, whether its Receiver is alive
    reqs,          \* every Request made: its RequestE, its reply channel, its outcome
    clients,       \* every ConcurrentEngineClient: where it is in send_request
    actor,         \* the ConcurrentEngineWrapper: where it is in program_loop, its engine
    served,        \* the requests dispatched to the engine, in order
    arrivals,      \* the requests in the order they arrived on the channel
    cval,          \* the Value given to the Dumper
    cbytes,        \* what write_value returned and the bytes it wrote
    cres,          \* what next_value returned and how far it read
    cpc,           \* where the round trip is: idle, value, dumped, parsed
    cnext,         \* the value dumped after cval
    ccut,          \* how many tokens the stream lost at its end
    cskip,         \* what skip_next returned and how far it read
    cseek,         \* what seek_next returned and where it left the source
    cdelta,        \* how far the stream's List or Map length is off
    efile,         \* the stream under the Engine of the item calls
    eres           \* the last item call and what it returned

vars == <<blocks, modified, cursor, access_count, block_size, max_blocks,
          ideal_blocks, pcursor, file, fpos, naive, last, nops, acc,
          astate, fpend, want, feature, chan, reqs, clients, actor, served,
          arrivals, cval, cbytes, cres, cpc, cnext, ccut, cskip, cseek, cdelta,
          efile, eres>>

bufvars == <<blocks, modified, cursor, access_count, block_size, max_blocks,
             ideal_blocks, pcursor, file, fpos, naive, last, nops, acc,
             astate, fpend, want>>

concvars == <<feature, chan, reqs, clients, actor, served, arrivals>>

itemvars == <<efile, eres>>

skipvars == <<cnext, ccut, cskip, cseek, cdelta>>

codecvars == <<cval, cbytes, cres, cpc, cnext, ccut, cskip, cseek, cdelta>>

\* ------------------------------------------------------------------ bytes
Min(a, b) == IF a < b THEN a ELSE b

Max(a, b) == IF a > b THEN a ELSE b

\* vec![0u8; n]
Zeros(n) == [i \in 1..n |-> 0]

\* s[from..to], 0-based and half open as in Rust
Slice(s, from, to) == SubSeq(s, from + 1, to)

\* the buffer a caller hands to write: n bytes, distinct, starting at s
MkBuf(s, n) == [i \in 1..n |-> s + i - 1]

\* the initial backing stream of n bytes: byte i is 100 + i
MkFile(n) == [i \in 1..n |-> 100 + i]

\* F::write at position pos of an in-memory or on-disk stream: bytes past the
\* end are zero filled, the stream grows as needed
file_write(f, pos, data) ==
    IF Len(data) = 0 THEN f
    ELSE LET padded == IF pos > Len(f) THEN f \o Zeros(pos - Len(f)) ELSE f
             end == pos + Len(data)
         IN [i \in 1..Max(Len(padded), end) |->
                IF i > pos /\ i <= end THEN data[i - pos] ELSE padded[i]]

\* F::read of up to n bytes at position pos
file_read(f, pos, n) ==
    IF pos >= Len(f) THEN <<>> ELSE Slice(f, pos, Min(Len(f), pos + n))

\* ------------------------------------------------------------------ Buffer
\* The whole state as one record, for the operators below.
St == [blocks |-> blocks, modified |-> modified, cursor |-> cursor,
       access_count |-> access_count, block_size |-> block_size,
       max_blocks |-> max_blocks, ideal_blocks |-> ideal_blocks,
       pcursor |-> pcursor, file |-> file, fpos |-> fpos]

\* get_block!: stamp the block with the access counter
get_block(b, id) ==
    [b EXCEPT !.blocks[id].access = b.access_count,
              !.access_count = b.access_count + 1]

\* Buffer::insert
insert(b, id, data) ==
    [b EXCEPT !.blocks = [k \in (DOMAIN b.blocks) \cup {id} |->
                             IF k = id THEN [data |-> data, access |-> b.access_count]
                             ELSE b.blocks[k]],
              !.access_count = b.access_count + 1]

\* Buffer::mark_modified
mark_modified(b, id) == [b EXCEPT !.modified = b.modified \cup {id}]

\* Buffer::mark_clean
mark_clean(b, id) == [b EXCEPT !.modified = b.modified \ {id}]

\* Buffer::is_full
is_full(b) == Cardinality(DOMAIN b.blocks) > b.max_blocks

\* BinaryHeap::peek on (access, id) pairs: the greatest pair
HeapMax(h) ==
    CHOOSE x \in h : \A y \in h : y[1] < x[1] \/ (y[1] = x[1] /\ y[2] <= x[2])

\* a scan that keeps the most recently used clean blocks for deletion
purge_scan_newest(b, todo, to_delete, n_blocks) ==
    {<<b.blocks[k].access, k>> :
        k \in {c \in todo \ b.modified :
                  Cardinality({j \in todo \ b.modified :
                                  b.blocks[j].access > b.blocks[c].access}) < n_blocks}}

\* the loop of purge_least_recently_used over the blocks still to visit
RECURSIVE purge_scan(_, _, _, _)
purge_scan(b, todo, to_delete, n_blocks) ==
    IF todo = {} THEN to_delete
    ELSE LET k == CHOOSE x \in todo : TRUE
             v == b.blocks[k]
             rest == todo \ {k}
         IN IF k \in b.modified THEN purge_scan(b, rest, to_delete, n_blocks)
            ELSE IF Cardinality(to_delete) < n_blocks
                 THEN purge_scan(b, rest, to_delete \cup {<<v.access, k>>}, n_blocks)
            ELSE IF to_delete # {}
                 THEN LET top == HeapMax(to_delete)
                          pushed == IF v.access <= top[1]
                                    THEN to_delete \cup {<<v.access, k>>}
                                    ELSE to_delete
                          popped == IF Cardinality(pushed) > n_blocks
                                    THEN pushed \ {HeapMax(pushed)}
                                    ELSE pushed
                      IN purge_scan(b, rest, popped, n_blocks)
            ELSE purge_scan(b, rest, to_delete, n_blocks)

\* a purge that does not look at modified
purge_least_recently_used_any(b) ==
    LET n_blocks == Cardinality(DOMAIN b.blocks) - b.ideal_blocks
        to_delete == purge_scan([b EXCEPT !.modified = {}], DOMAIN b.blocks, {}, n_blocks)
        gone == {x[2] : x \in to_delete}
    IN [b EXCEPT !.blocks = [k \in (DOMAIN b.blocks) \ gone |-> b.blocks[k]]]

\* Buffer::purge_least_recently_used
purge_least_recently_used(b) ==
    LET n_blocks == Cardinality(DOMAIN b.blocks) - b.ideal_blocks
        to_delete == purge_scan(b, DOMAIN b.blocks, {}, n_blocks)
        gone == {x[2] : x \in to_delete}
    IN [b EXCEPT !.blocks = [k \in (DOMAIN b.blocks) \ gone |-> b.blocks[k]]]

\* Buffer::purge_if_full, the overflow check run at the end of a call
purge_if_full(b) == IF is_full(b) THEN purge_least_recently_used(b) ELSE b

\* Buffer::get_next_modified_block
get_next_modified_block(b) ==
    CHOOSE m \in b.modified : \A o \in b.modified : m <= o

\* ------------------------------------------------------------------ FileBuffer
\* FileBuffer::internal_cursor_seek(SeekFrom::Start(position))
internal_cursor_seek(b, position) ==
    IF b.pcursor = position THEN b
    ELSE [b EXCEPT !.fpos = position, !.pcursor = position]

\* internal_read_block that keeps the zero padding of a short final block
internal_read_block_untrimmed(b, block) ==
    LET b1 == internal_cursor_seek(b, block * b.block_size)
        buf == file_read(b1.file, b1.fpos, b1.block_size)
        read == Len(buf)
        b2 == [b1 EXCEPT !.fpos = b1.fpos + read,
                         !.pcursor = block * b.block_size + read]
    IN IF read = 0 THEN <<b2, FALSE>>
       ELSE <<insert(b2, block, buf \o Zeros(b.block_size - read)), TRUE>>

\* FileBuffer::internal_read_block: <<state, exists>>. The backing stream hands
\* over every byte it has, so the loop ends after one full read or one short
\* read followed by a read of 0 bytes.
internal_read_block(b, block) ==
    LET b1 == internal_cursor_seek(b, block * b.block_size)
        buf == file_read(b1.file, b1.fpos, b1.block_size)
        read == Len(buf)
        b2 == [b1 EXCEPT !.fpos = b1.fpos + read,
                         !.pcursor = block * b.block_size + read]
    IN IF read = 0 THEN <<b2, FALSE>> ELSE <<insert(b2, block, buf), TRUE>>

\* FileBuffer::read, the loop; out is buf[..read]
RECURSIVE read_loop(_, _, _)
read_loop(b, n, out) ==
    IF Len(out) >= n THEN [b |-> purge_if_full(b), status |-> "ok", out |-> out]
    ELSE LET sect == b.cursor \div b.block_size
             offset == b.cursor % b.block_size
         IN IF sect \in DOMAIN b.blocks
            THEN LET b1 == get_block(b, sect)
                     data == b1.blocks[sect].data
                 IN IF offset > Len(data)
                    THEN [b |-> b1, status |-> "panic", out |-> out]
                    ELSE LET to_read == Min(Len(data) - offset, n - Len(out))
                         IN IF to_read = 0
                            THEN [b |-> purge_if_full(b1), status |-> "ok", out |-> out]
                            ELSE read_loop([b1 EXCEPT !.cursor = b1.cursor + to_read], n,
                                           out \o Slice(data, offset, offset + to_read))
            ELSE IF Len(out) > 0
                 THEN [b |-> purge_if_full(b), status |-> "ok", out |-> out]
                 ELSE LET r == internal_read_block(b, sect)
                      IN IF ~r[2]
                         THEN [b |-> purge_if_full(r[1]), status |-> "ok", out |-> out]
                         ELSE read_loop(r[1], n, out)

\* FileBuffer::read
read(b, n) == read_loop(b, n, <<>>)

\* copy_from_slice into data[offset..offset + Len(src)]
Patch(data, offset, src) ==
    [i \in 1..Len(data) |->
        IF i > offset /\ i <= offset + Len(src) THEN src[i - offset] ELSE data[i]]

\* FileBuffer::write, the loop
RECURSIVE write_loop(_, _, _)
write_loop(b, buf, written) ==
    IF written >= Len(buf) THEN [b |-> purge_if_full(b), status |-> "ok", ret |-> written]
    ELSE LET sect == b.cursor \div b.block_size
             offset == b.cursor % b.block_size
             rest == Slice(buf, written, Len(buf))
         IN IF sect \in DOMAIN b.blocks
            THEN \* get_next_block_modify
                 LET b1 == mark_modified(get_block(b, sect), sect)
                     data == b1.blocks[sect].data
                 IN IF offset > Len(data)
                    THEN [b |-> b1, status |-> "panic", ret |-> written]
                    ELSE LET to_write == Min(Len(data) - offset, Len(rest))
                             data1 == Patch(data, offset, Slice(rest, 0, to_write))
                             written1 == written + to_write
                             rest1 == Slice(buf, written1, Len(buf))
                             to_extend == IF Len(data1) < b.block_size
                                          THEN Min(b.block_size - Len(data1), Len(rest1))
                                          ELSE 0
                             data2 == data1 \o Slice(rest1, 0, to_extend)
                         IN write_loop([b1 EXCEPT !.blocks[sect].data = data2,
                                                  !.cursor = b1.cursor + to_extend + to_write],
                                       buf, written1)
            ELSE IF offset = 0 /\ Len(rest) > b.block_size
                 THEN \* overwrite the whole block without reading it
                      LET b1 == mark_modified(insert(b, sect, Slice(rest, 0, b.block_size)), sect)
                      IN write_loop([b1 EXCEPT !.cursor = b1.cursor + b.block_size],
                                    buf, written + b.block_size)
            ELSE IF written > 0
                 THEN [b |-> purge_if_full(b), status |-> "ok", ret |-> written]
            ELSE LET r == internal_read_block(b, sect)
                 IN IF ~r[2]
                    THEN \* create a new block
                         LET to_write == Min(b.block_size - offset, Len(rest))
                             data == Zeros(offset) \o Slice(rest, 0, to_write)
                             b1 == mark_modified(insert(r[1], sect, data), sect)
                         IN write_loop([b1 EXCEPT !.cursor = b1.cursor + to_write],
                                       buf, written + to_write)
                    ELSE write_loop(r[1], buf, written)

\* FileBuffer::write
write(b, buf) == write_loop(b, buf, 0)

\* FileBuffer::internal_write_block (the block is cached: modified is a subset
\* of the cached ids whenever flush runs)
internal_write_block(b, block) ==
    LET b1 == internal_cursor_seek(b, block * b.block_size)
        buf == b1.blocks[block].data
        b2 == [b1 EXCEPT !.file = file_write(b1.file, b1.fpos, buf),
                         !.fpos = b1.fpos + Len(buf),
                         !.pcursor = block * b.block_size + Len(buf)]
    IN mark_clean(b2, block)

\* FileBuffer::flush
RECURSIVE flush(_)
flush(b) ==
    IF b.modified # {}
    THEN flush(internal_write_block(b, get_next_modified_block(b)))
    ELSE purge_if_full(b)

\* FileBuffer::clear_cache over flush_blocks: the modified blocks are written in
\* ascending order straight to the stream, the tracked physical cursor is not
\* touched, then every block is dropped
RECURSIVE flush_blocks(_, _)
flush_blocks(b, todo) ==
    IF todo = {} THEN b
    ELSE LET block == CHOOSE m \in todo : \A o \in todo : m <= o
             pos == block * b.block_size
             b1 == IF block \in DOMAIN b.blocks
                   THEN LET buf == get_block(b, block).blocks[block].data
                        IN [get_block(b, block) EXCEPT
                               !.file = file_write(b.file, pos, buf),
                               !.fpos = pos + Len(buf)]
                   ELSE b
         IN flush_blocks(b1, todo \ {block})

\* a clear_cache that drops the blocks without writing the modified ones back
clear_cache_unflushed(b) == [b EXCEPT !.blocks = <<>>]

clear_cache(b) ==
    LET b0 == [b EXCEPT !.modified = {},
                        !.fpos = IF b.modified = {} THEN b.fpos
                                 ELSE get_next_modified_block(b) * b.block_size]
        b1 == flush_blocks(b0, b.modified)
        b2 == IF is_full(b1) THEN purge_least_recently_used(b1) ELSE b1
    IN [b2 EXCEPT !.blocks = <<>>]

\* the end of the data as the caller sees it: the backing stream or the
\* furthest cached byte
LogicalEnd(b) ==
    LET ends == {Len(b.file)} \cup
                {k * b.block_size + Len(b.blocks[k].data) : k \in DOMAIN b.blocks}
    IN CHOOSE e \in ends : \A o \in ends : o <= e

\* AsyncFileBufState, one record shape for every variant
Normal == [tag |-> "Normal", block |-> 0, buf |-> <<>>, n |-> 0, from |-> "-", off |-> 0]

StartSeek(from, off) == [Normal EXCEPT !.tag = "StartSeek", !.from = from, !.off = off]

Seeking == [Normal EXCEPT !.tag = "Seeking"]

Reading(block, buf, n) == [Normal EXCEPT !.tag = "Reading", !.block = block, !.buf = buf, !.n = n]

Writing(block, buf, n) == [Normal EXCEPT !.tag = "Writing", !.block = block, !.buf = buf, !.n = n]

Closing == [Normal EXCEPT !.tag = "Closing"]

\* ------------------------------------------------------------------ legacy dialect: numbers

\* The streams considered hold bytes 0..255 and run tokens: RunTok stands for
\* Run = 2^31 - 1 consecutive zero bytes, so that payloads around the i32 and
\* u32 limits are present without being stored byte by byte.
Run == 2147483647
RunTok == 256

\* a usize length <<runs, small>> = runs * Run + small, with small < Run;
\* <<-1, i>> is the length 2^64 + i for an i < 0
Length(runs, small) == <<runs, small>>
Huge(i) == <<0 - 1, i>>
IsHuge(l) == l[1] = 0 - 1
LenAdd(a, b) == <<a[1] + b[1], a[2] + b[2]>>
LenMul(n, d) == <<n * d[1], n * d[2]>>
LenLt(a, b) == IsHuge(b) \/ a[1] < b[1] \/ (a[1] = b[1] /\ a[2] < b[2])
LenOf(tokens) ==
    <<Cardinality({i \in DOMAIN tokens : tokens[i] = RunTok}),
      Cardinality({i \in DOMAIN tokens : tokens[i] # RunTok})>>

\* usize -> u32 by try_into: the length is at most 2^32 - 1 = 2 * Run + 1
FitsU32(l) == l[1] < 2 \/ (l[1] = 2 /\ l[2] <= 1)

\* `len as i32` of a u32 length
U32AsI32(l) ==
    IF l[1] = 0 THEN l[2]
    ELSE IF l[1] = 1 THEN (IF l[2] = 0 THEN Run ELSE (l[2] - 1) - Run - 1)
    ELSE l[2] - 2

\* `next_data_int()? as usize` on a 64-bit target: sign extension
I32AsUsize(i) ==
    IF i < 0 THEN Huge(i) ELSE IF i = Run THEN Length(1, 0) ELSE Length(0, i)

\* write_i32::<BigEndian> and read_i32::<BigEndian>
I32Bytes(v) ==
    <<(v \div 16777216) % 256, (v \div 65536) % 256, (v \div 256) % 256, v % 256>>
BytesI32(b) ==
    (IF b[1] >= 128 THEN b[1] - 256 ELSE b[1]) * 16777216
        + b[2] * 65536 + b[3] * 256 + b[4]

\* write_i16::<BigEndian> and read_i16::<BigEndian>
I16Bytes(v) == <<(v \div 256) % 256, v % 256>>
BytesI16(b) == (IF b[1] >= 128 THEN b[1] - 256 ELSE b[1]) * 256 + b[2]

\* write_i8 and read_i8
I8Bytes(v) == <<v % 256>>
BytesI8(b) == IF b[1] >= 128 THEN b[1] - 256 ELSE b[1]

\* write_i64::<BigEndian> and read_i64::<BigEndian>, the i64 given as its
\* high and low 32-bit words
I64Bytes(w) == I32Bytes(w[1]) \o I32Bytes(w[2])
BytesI64(b) == <<BytesI32(SubSeq(b, 1, 4)), BytesI32(SubSeq(b, 5, 8))>>

\* `variant as i32` and `next_data_int()? as u32`, the u32 given as its high
\* and low 16-bit halves
U32HalvesAsI32(h) ==
    (IF h[1] >= 32768 THEN h[1] - 65536 ELSE h[1]) * 65536 + h[2]
I32AsU32Halves(i) == <<(i \div 65536) % 65536, i % 65536>>

\* ------------------------------------------------------------------ legacy dialect: Value, Mark, Type

\* Value and Mark: a variant tag, its numbers, its children
Value(tag, n, kids) == [tag |-> tag, n |-> n, kids |-> kids]
LMark(tag, n, kids) == [tag |-> tag, n |-> n, kids |-> kids]

\* Type::prefix
prefix(tag) ==
    CASE tag = "Long" -> 108 [] tag = "Int" -> 105 [] tag = "Short" -> 104
      [] tag = "Char" -> 99 [] tag = "Float" -> 102 [] tag = "Double" -> 100
      [] tag = "Null" -> 110 [] tag = "Bytes" -> 98 [] tag = "Str" -> 115
      [] tag = "Object" -> 111 [] tag = "Enum" -> 101 [] tag = "Array" -> 97
      [] tag = "List" -> 65 [] tag = "Dict" -> 109 [] tag = "Map" -> 77

Types ==
    {"Long", "Int", "Short", "Char", "Float", "Double", "Null", "Bytes", "Str",
     "Object", "Enum", "Array", "List", "Dict", "Map"}

\* Type::from_prefix: the type of a prefix byte, "" when there is none
from_prefix(b) ==
    IF \E t \in Types : prefix(t) = b
        THEN CHOOSE t \in Types : prefix(t) = b
        ELSE ""

RECURSIVE MarkOf(_), can_be_array(_), can_be_dict(_), size(_), data_size(_),
          header_size(_), SumSizes(_)

\* the bytes a mark takes on the wire
header_size(m) ==
    CASE m.tag \in {"Bytes", "Str", "Object", "List", "Map"} -> 5
      [] m.tag = "Enum" -> 1 + header_size(m.kids[1])
      [] m.tag = "Array" -> 1 + header_size(m.kids[1]) + 4
      [] m.tag = "Dict" -> 1 + header_size(m.kids[1]) + header_size(m.kids[2]) + 4
      [] OTHER -> 1

\* Mark::data_size: the bytes the data of a mark takes
data_size(m) ==
    CASE m.tag \in {"Long", "Double"} -> Length(0, 8)
      [] m.tag \in {"Int", "Float"} -> Length(0, 4)
      [] m.tag = "Short" -> Length(0, 2)
      [] m.tag = "Char" -> Length(0, 1)
      [] m.tag = "Null" -> Length(0, 0)
      [] m.tag \in {"Bytes", "Str", "Object", "List", "Map"} -> m.n
      [] m.tag = "Enum" -> LenAdd(Length(0, 4), data_size(m.kids[1]))
      [] m.tag = "Array" -> LenMul(m.n[2], data_size(m.kids[1]))
      [] m.tag = "Dict" ->
             LenMul(m.n[2], LenAdd(data_size(m.kids[1]), data_size(m.kids[2])))

\* Mark::size: mark and data together
size(m) == LenAdd(Length(0, header_size(m)), data_size(m))

\* the sum of the sizes of the values of a sequence
SumSizes(vs) ==
    IF vs = <<>> THEN Length(0, 0)
    ELSE LenAdd(size(MarkOf(Head(vs))), SumSizes(Tail(vs)))

\* a classification that compares the variants of the elements only
can_be_array_by_type(vs) ==
    vs # <<>> /\ \A i \in DOMAIN vs : vs[i].tag = vs[1].tag

\* Value::can_be_array: not empty and every element has the same mark
can_be_array(vs) ==
    vs # <<>> /\ \A i \in DOMAIN vs : MarkOf(vs[i]) = MarkOf(vs[1])

\* Value::can_be_dict on the pairs k1, v1, k2, v2, ...
can_be_dict(kvs) ==
    /\ kvs # <<>>
    /\ \A i \in DOMAIN kvs :
           MarkOf(kvs[i]) = MarkOf(kvs[IF i % 2 = 1 THEN 1 ELSE 2])

\* Mark::from(&Value)
MarkOf(v) ==
    CASE v.tag \in {"Bytes", "Str", "Object"} -> LMark(v.tag, LenOf(v.n), <<>>)
      [] v.tag = "Enum" -> LMark("Enum", Length(0, 0), <<MarkOf(v.kids[1])>>)
      [] v.tag = "List" ->
             IF can_be_array(v.kids)
                 THEN LMark("Array", Length(0, Len(v.kids)), <<MarkOf(v.kids[1])>>)
                 ELSE LMark("List", SumSizes(v.kids), <<>>)
      [] v.tag = "Map" ->
             IF can_be_dict(v.kids)
                 THEN LMark("Dict", Length(0, Len(v.kids) \div 2),
                            <<MarkOf(v.kids[1]), MarkOf(v.kids[2])>>)
                 ELSE LMark("Map", SumSizes(v.kids), <<>>)
      [] OTHER -> LMark(v.tag, Length(0, 0), <<>>)

\* ------------------------------------------------------------------ Dumper

\* Result<()> of a write with the bytes written
Ok(out) == [ok |-> TRUE, out |-> out]
Err == [ok |-> FALSE, out |-> <<>>]

\* a write, `?`, then another write
Then(a, b) == IF a.ok /\ b.ok THEN Ok(a.out \o b.out) ELSE Err

\* write_data_int
write_data_int(v) == Ok(I32Bytes(v))

\* `let len: u32 = len.try_into()?; self.write_data_int(len as i32)`
write_len(len) == IF FitsU32(len) THEN write_data_int(U32AsI32(len)) ELSE Err

RECURSIVE write_mark(_), write_data_value(_), write_value(_),
          write_data_array(_), write_data_list(_)

\* write_mark and the write_mark_* it dispatches to
write_mark(m) ==
    CASE m.tag \in {"Bytes", "Str", "Object", "List", "Map"} ->
             Then(Ok(<<prefix(m.tag)>>), write_len(m.n))
      [] m.tag = "Enum" -> Then(Ok(<<prefix(m.tag)>>), write_mark(m.kids[1]))
      [] m.tag = "Array" ->
             Then(Then(Ok(<<prefix(m.tag)>>), write_mark(m.kids[1])), write_len(m.n))
      [] m.tag = "Dict" ->
             Then(Then(Then(Ok(<<prefix(m.tag)>>), write_mark(m.kids[1])),
                       write_mark(m.kids[2])),
                  write_len(m.n))
      [] OTHER -> Ok(<<prefix(m.tag)>>)

\* write_data_array / write_data_dict: the bare data of every value
write_data_array(vs) ==
    IF vs = <<>> THEN Ok(<<>>)
    ELSE Then(write_data_value(Head(vs)), write_data_array(Tail(vs)))

\* write_data_list / write_data_map: every value with its mark
write_data_list(vs) ==
    IF vs = <<>> THEN Ok(<<>>)
    ELSE Then(write_value(Head(vs)), write_data_list(Tail(vs)))

\* write_data_value
write_data_value(v) ==
    CASE v.tag \in {"Long", "Double"} -> Ok(I64Bytes(v.n))
      [] v.tag \in {"Int", "Float"} -> Ok(I32Bytes(v.n[1]))
      [] v.tag = "Short" -> Ok(I16Bytes(v.n[1]))
      [] v.tag = "Char" -> Ok(I8Bytes(v.n[1]))
      [] v.tag \in {"Bytes", "Str", "Object"} -> Ok(v.n)
      [] v.tag = "Enum" ->
             Then(write_data_int(U32HalvesAsI32(v.n)), write_data_value(v.kids[1]))
      [] v.tag = "Null" -> Ok(<<>>)
      [] v.tag = "List" ->
             IF can_be_array(v.kids) THEN write_data_array(v.kids)
             ELSE write_data_list(v.kids)
      [] v.tag = "Map" ->
             IF can_be_dict(v.kids) THEN write_data_array(v.kids)
             ELSE write_data_list(v.kids)

\* write_list
write_list(vs) ==
    IF can_be_array(vs)
        THEN Then(write_mark(LMark("Array", Length(0, Len(vs)), <<MarkOf(vs[1])>>)),
                  write_data_array(vs))
        ELSE Then(write_mark(LMark("List", SumSizes(vs), <<>>)), write_data_list(vs))

\* write_map
write_map(kvs) ==
    IF can_be_dict(kvs)
        THEN Then(write_mark(LMark("Dict", Length(0, Len(kvs) \div 2),
                                   <<MarkOf(kvs[1]), MarkOf(kvs[2])>>)),
                  write_data_array(kvs))
        ELSE Then(write_mark(LMark("Map", SumSizes(kvs), <<>>)), write_data_list(kvs))

\* write_value and the write_* it dispatches to
write_value(v) ==
    CASE v.tag = "List" -> write_list(v.kids)
      [] v.tag = "Map" -> write_map(v.kids)
      [] v.tag = "Enum" ->
             Then(write_mark(LMark("Enum", Length(0, 0), <<MarkOf(v.kids[1])>>)),
                  write_data_value(v))
      [] v.tag \in {"Bytes", "Str", "Object"} ->
             Then(write_mark(LMark(v.tag, LenOf(v.n), <<>>)), write_data_value(v))
      [] OTHER -> Then(write_mark(LMark(v.tag, Length(0, 0), <<>>)), write_data_value(v))

\* ------------------------------------------------------------------ Parser

\* Result of a read: st is "ok", "err" (an Error is returned) or "panic";
\* p is the number of stream tokens consumed so far
Got(v, p) == [st |-> "ok", v |-> v, p |-> p]
Bad(st, p) == [st |-> st, v |-> <<>>, p |-> p]

\* Err(Error::IO(UnexpectedEof)) of a short read and Err(Error::DataError(_))
UnexpectedEof(p) == [st |-> "err", v |-> <<"IO">>, p |-> p]
DataError(p) == [st |-> "err", v |-> <<"DataError">>, p |-> p]

\* the operator `?`: go on with the value read, or return the failure
OnOk(r, F(_)) == IF r.st = "ok" THEN F(r) ELSE r

\* read_exact of k bytes, k a small fixed width (no such read meets a run in
\* the streams a Dumper writes)
read_exact(s, p, k) ==
    IF p + k <= Len(s) /\ \A i \in (p + 1)..(p + k) : s[i] # RunTok
        THEN Got(SubSeq(s, p + 1, p + k), p + k)
        ELSE UnexpectedEof(p)

\* next_data_n: `vec![0; n]`, which panics with capacity overflow for a length
\* above isize::MAX, then read_exact
next_data_n(s, p, n) ==
    IF IsHuge(n) THEN Bad("panic", p)
    ELSE IF p + n[1] + n[2] <= Len(s)
                /\ LenOf(SubSeq(s, p + 1, p + n[1] + n[2])) = n
        THEN Got(SubSeq(s, p + 1, p + n[1] + n[2]), p + n[1] + n[2])
    ELSE UnexpectedEof(p)

\* next_data_int
next_data_int(s, p) ==
    OnOk(read_exact(s, p, 4), LAMBDA r : Got(BytesI32(r.v), r.p))

\* `self.next_data_int()? as usize`
next_len(s, p) ==
    OnOk(next_data_int(s, p), LAMBDA r : Got(I32AsUsize(r.v), r.p))

\* next_type
next_type(s, p) ==
    OnOk(read_exact(s, p, 1),
         LAMBDA r : IF from_prefix(r.v[1]) = "" THEN DataError(r.p)
                    ELSE Got(from_prefix(r.v[1]), r.p))

RECURSIVE next_mark(_, _), next_data_value(_, _, _), next_data_array(_, _, _, _),
          next_data_list(_, _, _, _, _), next_data_dict(_, _, _, _, _),
          next_data_map(_, _, _, _, _)

\* next_mark, once the type t is read
mark_of_type(s, t) ==
    CASE t.v \in {"Bytes", "Str", "Object", "List", "Map"} ->
             OnOk(next_len(s, t.p), LAMBDA n : Got(LMark(t.v, n.v, <<>>), n.p))
      [] t.v = "Enum" ->
             OnOk(next_mark(s, t.p),
                  LAMBDA m : Got(LMark("Enum", Length(0, 0), <<m.v>>), m.p))
      [] t.v = "Array" ->
             OnOk(next_mark(s, t.p), LAMBDA m :
             OnOk(next_len(s, m.p), LAMBDA n :
                  Got(LMark("Array", n.v, <<m.v>>), n.p)))
      [] t.v = "Dict" ->
             OnOk(next_mark(s, t.p), LAMBDA k :
             OnOk(next_mark(s, k.p), LAMBDA v :
             OnOk(next_len(s, v.p), LAMBDA n :
                  Got(LMark("Dict", n.v, <<k.v, v.v>>), n.p))))
      [] OTHER -> Got(LMark(t.v, Length(0, 0), <<>>), t.p)

\* next_mark
next_mark(s, p) == OnOk(next_type(s, p), LAMBDA t : mark_of_type(s, t))

\* next_data_array: `left` more values of mark m
next_data_array(s, p, m, left) ==
    IF left = 0 THEN Got(<<>>, p)
    ELSE OnOk(next_data_value(s, p, m), LAMBDA v :
         OnOk(next_data_array(s, v.p, m, left - 1), LAMBDA rest :
              Got(<<v.v>> \o rest.v, rest.p)))

\* next_data_dict: `left` more pairs of marks k and v
next_data_dict(s, p, k, v, left) ==
    IF left = 0 THEN Got(<<>>, p)
    ELSE OnOk(next_data_value(s, p, k), LAMBDA key :
         OnOk(next_data_value(s, key.p, v), LAMBDA val :
         OnOk(next_data_dict(s, val.p, k, v, left - 1), LAMBDA rest :
              Got(<<key.v, val.v>> \o rest.v, rest.p))))

\* next_data_list: the loop `while read < size`, then the check `read > size`
next_data_list(s, p, n, done, got) ==
    IF LenLt(done, n)
        THEN OnOk(next_mark(s, p), LAMBDA m :
             OnOk(next_data_value(s, m.p, m.v), LAMBDA v :
                  next_data_list(s, v.p, n, LenAdd(done, size(m.v)),
                                 Append(got, v.v))))
    ELSE IF LenLt(n, done) THEN DataError(p)
    ELSE Got(got, p)

\* next_data_map: the same loop over pairs
next_data_map(s, p, n, done, got) ==
    IF LenLt(done, n)
        THEN OnOk(next_mark(s, p), LAMBDA k :
             OnOk(next_data_value(s, k.p, k.v), LAMBDA key :
             OnOk(next_mark(s, key.p), LAMBDA v :
             OnOk(next_data_value(s, v.p, v.v), LAMBDA val :
                  next_data_map(s, val.p, n,
                                LenAdd(done, LenAdd(size(k.v), size(v.v))),
                                got \o <<key.v, val.v>>)))))
    ELSE IF LenLt(n, done) THEN DataError(p)
    ELSE Got(got, p)

\* String::from_utf8 on the ASCII strings considered
from_utf8(b) == \A i \in DOMAIN b : b[i] < 128

\* next_data_value
next_data_value(s, p, m) ==
    CASE m.tag \in {"Long", "Double"} ->
             OnOk(read_exact(s, p, 8),
                  LAMBDA r : Got(Value(m.tag, BytesI64(r.v), <<>>), r.p))
      [] m.tag \in {"Int", "Float"} ->
             OnOk(next_data_int(s, p),
                  LAMBDA r : Got(Value(m.tag, <<r.v>>, <<>>), r.p))
      [] m.tag = "Short" ->
             OnOk(read_exact(s, p, 2),
                  LAMBDA r : Got(Value(m.tag, <<BytesI16(r.v)>>, <<>>), r.p))
      [] m.tag = "Char" ->
             OnOk(read_exact(s, p, 1),
                  LAMBDA r : Got(Value(m.tag, <<BytesI8(r.v)>>, <<>>), r.p))
      [] m.tag \in {"Bytes", "Object"} ->
             OnOk(next_data_n(s, p, m.n),
                  LAMBDA r : Got(Value(m.tag, r.v, <<>>), r.p))
      [] m.tag = "Str" ->
             OnOk(next_data_n(s, p, m.n),
                  LAMBDA r : IF from_utf8(r.v) THEN Got(Value(m.tag, r.v, <<>>), r.p)
                             ELSE DataError(r.p))
      [] m.tag = "Enum" ->
             OnOk(next_data_int(s, p), LAMBDA var :
             OnOk(next_data_value(s, var.p, m.kids[1]), LAMBDA val :
                  Got(Value("Enum", I32AsU32Halves(var.v), <<val.v>>), val.p)))
      [] m.tag = "Null" -> Got(Value("Null", <<>>, <<>>), p)
      [] m.tag = "Array" ->
             \* Vec::with_capacity(len): capacity overflow above isize::MAX; a
             \* count of 2^31 - 1 is beyond the arrays considered
             IF IsHuge(m.n) THEN Bad("panic", p)
             ELSE IF m.n[1] > 0 THEN Bad("err", p)
             ELSE OnOk(next_data_array(s, p, m.kids[1], m.n[2]),
                       LAMBDA r : Got(Value("List", <<>>, r.v), r.p))
      [] m.tag = "List" ->
             OnOk(next_data_list(s, p, m.n, Length(0, 0), <<>>),
                  LAMBDA r : Got(Value("List", <<>>, r.v), r.p))
      [] m.tag = "Dict" ->
             IF IsHuge(m.n) THEN Bad("panic", p)
             ELSE IF m.n[1] > 0 THEN Bad("err", p)
             ELSE OnOk(next_data_dict(s, p, m.kids[1], m.kids[2], m.n[2]),
                       LAMBDA r : Got(Value("Map", <<>>, r.v), r.p))
      [] m.tag = "Map" ->
             OnOk(next_data_map(s, p, m.n, Length(0, 0), <<>>),
                  LAMBDA r : Got(Value("Map", <<>>, r.v), r.p))

\* next_value
next_value(s, p) ==
    OnOk(next_mark(s, p), LAMBDA m : next_data_value(s, m.p, m.v))

\* skip_next: the mark, then next_data_n of its data_size
skip_next(s, p) ==
    OnOk(next_mark(s, p), LAMBDA m :
    OnOk(next_data_n(s, m.p, data_size(m.v)), LAMBDA d : Got(<<>>, d.p)))

\* the byte position of token position p of a stream
BytePos(s, p) == LenOf(SubSeq(s, 1, p))

\* Seek::seek(SeekFrom::Current(size as i64)) from byte position pos: a length
\* 2^64 + i is the offset i < 0; a position below 0 is an error, a position
\* past the end is not
seek_current(pos, n) ==
    IF ~IsHuge(n) THEN [st |-> "ok", pos |-> LenAdd(pos, n)]
    ELSE IF pos[1] > 0 THEN [st |-> "ok", pos |-> <<pos[1] - 1, pos[2] + n[2] + Run>>]
    ELSE IF pos[2] + n[2] < 0 THEN [st |-> "err", pos |-> pos]
    ELSE [st |-> "ok", pos |-> <<0, pos[2] + n[2]>>]

\* seek_next once next_mark returned
seek_mark(s, m) ==
    IF m.st = "ok" THEN seek_current(BytePos(s, m.p), data_size(m.v))
    ELSE [st |-> m.st, pos |-> BytePos(s, m.p)]

\* seek_next: the mark, then a relative seek over its data_size
seek_next(s, p) == seek_mark(s, next_mark(s, p))

\* ------------------------------------------------------------------ round trip

\* Value::Long .. Value::Null
Scalars ==
    {Value("Long", <<0, 1>>, <<>>), Value("Long", <<0 - Run - 1, 0>>, <<>>),
     Value("Long", <<Run, 0 - 1>>, <<>>),
     Value("Int", <<0 - 1>>, <<>>), Value("Int", <<Run>>, <<>>),
     Value("Int", <<0 - Run - 1>>, <<>>),
     Value("Short", <<258>>, <<>>), Value("Short", <<0 - 32768>>, <<>>),
     Value("Char", <<5>>, <<>>), Value("Char", <<0 - 128>>, <<>>),
     Value("Float", <<2143289344>>, <<>>), Value("Float", <<0>>, <<>>),
     Value("Double", <<2146959360, 0>>, <<>>),
     Value("Null", <<>>, <<>>)}

\* Value::Bytes, Value::Str, Value::Object with short payloads
Strings ==
    {Value("Bytes", <<>>, <<>>), Value("Bytes", <<7>>, <<>>),
     Value("Bytes", <<7, 200>>, <<>>), Value("Object", <<1>>, <<>>),
     Value("Str", <<>>, <<>>), Value("Str", <<97>>, <<>>),
     Value("Str", <<98>>, <<>>), Value("Str", <<97, 98>>, <<>>)}

\* payloads of 2^31 - 1, 2^31, 2^32 - 1 and 2^32 bytes
Large ==
    {Value("Bytes", <<RunTok>>, <<>>), Value("Bytes", <<RunTok, 7>>, <<>>),
     Value("Object", <<RunTok, RunTok, 7>>, <<>>),
     Value("Bytes", <<RunTok, RunTok, 7, 8>>, <<>>)}

Atoms == Scalars \cup Strings

\* the sequences of at most MaxItems values of S
SeqsOf(S) == UNION {[1..k -> S] : k \in 0..MaxItems}

\* the elements of the inner sequences
Inner ==
    {Value("Char", <<5>>, <<>>), Value("Char", <<0 - 128>>, <<>>),
     Value("Short", <<258>>, <<>>), Value("Null", <<>>, <<>>),
     Value("Str", <<97>>, <<>>), Value("Str", <<97, 98>>, <<>>)}

\* Value::Enum of an atom
Enums ==
    {Value("Enum", h, <<v>>) :
        h \in {<<0, 1>>, <<32768, 0>>, <<65535, 65535>>}, v \in Inner}

\* Value::List and Value::Map of atoms
Lists == {Value("List", <<>>, vs) : vs \in SeqsOf(Atoms)}
Maps ==
    {Value("Map", <<>>, kvs) :
        kvs \in {s \in SeqsOf(Inner) \cup [1..4 -> Inner] : Len(s) % 2 = 0}}

\* nested values: sequences and mappings of sequences, mappings and enums
Nested1 ==
    {Value("List", <<>>, vs) : vs \in SeqsOf(Inner)}
        \cup {Value("Map", <<>>, kvs) : kvs \in [1..2 -> Inner]}
        \cup {Value("Enum", <<0, 1>>, <<v>>) : v \in {Value("Char", <<5>>, <<>>)}}
Nested ==
    {Value("List", <<>>, vs) : vs \in SeqsOf(Nested1)}
        \cup {Value("Enum", <<0, 2>>, <<v>>) : v \in Nested1}
        \cup {Value("Map", <<>>, <<k, v>>) : k \in Inner, v \in Nested1}
        \cup {Value("List", <<>>, <<a, b>>) : a \in Large, b \in Inner}

\* the values written and read back
Values == Atoms \cup Large \cup Enums \cup Lists \cup Maps \cup Nested

\* no second value, nothing skipped
SkipIdle ==
    /\ cnext = Value("Null", <<>>, <<>>)
    /\ ccut = 0
    /\ cskip = Bad("err", 0)
    /\ cseek = [st |-> "err", pos |-> Length(0, 0)]
    /\ cdelta = 0

\* the codec before a value is chosen
CodecIdle ==
    /\ cval = Value("Null", <<>>, <<>>)
    /\ cbytes = Err
    /\ cres = Bad("err", 0)
    /\ cpc = "idle"
    /\ SkipIdle

\* no buffer is built
BufIdle ==
    /\ blocks = <<>> /\ modified = {} /\ cursor = 0 /\ access_count = 0
    /\ block_size = 1 /\ max_blocks = 0 /\ ideal_blocks = 0
    /\ pcursor = None /\ file = <<>> /\ fpos = 0 /\ naive = <<>>
    /\ last = [op |-> "new", status |-> "ok", ret |-> 0, out |-> <<>>,
               pre_cursor |-> 0, pre_end |-> 0, pure |-> TRUE]
    /\ nops = 0 /\ acc = <<>> /\ astate = Normal /\ fpend = None /\ want = <<>>

\* ------------------------------------------------------------------ calls
\* the public calls of a run: MaxOps of them, MaxDeepOps on blocks of one
\* byte under the largest cache that is purged down to one block
OpsBound ==
    IF block_size = 1 /\ max_blocks = MaxMaxBlocks /\ ideal_blocks = 1
        THEN MaxDeepOps ELSE MaxOps
Running == last.status # "panic" /\ nops < OpsBound

Record(op, status, ret, out) ==
    [op |-> op, status |-> status, ret |-> ret, out |-> out,
     pre_cursor |-> cursor, pre_end |-> LogicalEnd(St),
     pure |-> last.pure /\ op # "clear_cache"]

Store(b) ==
    /\ blocks' = b.blocks
    /\ modified' = b.modified
    /\ cursor' = b.cursor
    /\ access_count' = b.access_count
    /\ pcursor' = b.pcursor
    /\ file' = b.file
    /\ fpos' = b.fpos
    /\ nops' = nops + 1
    /\ UNCHANGED <<block_size, max_blocks, ideal_blocks, astate, fpend, want>>
    /\ UNCHANGED <<concvars, codecvars, itemvars>>

\* Seek::seek(SeekFrom::Start(pos))
SeekStart ==
    \E pos \in 0..MaxPos :
        /\ Running
        /\ Store([St EXCEPT !.cursor = pos])
        /\ last' = Record("seek", "ok", pos, <<>>)
        /\ UNCHANGED <<naive, acc>>

\* Seek::seek(SeekFrom::Current(offset))
SeekCurrent ==
    \E offset \in {0 - 2, 0 - 1, 1, 2} :
        /\ Running
        /\ cursor + offset <= MaxPos
        /\ IF cursor + offset < 0
           THEN /\ Store(St)
                /\ last' = Record("seek", "err", 0, <<>>)
           ELSE /\ Store([St EXCEPT !.cursor = cursor + offset])
                /\ last' = Record("seek", "ok", cursor + offset, <<>>)
        /\ UNCHANGED <<naive, acc>>

\* Seek::seek(SeekFrom::End(offset)) through internal_cursor_seek
SeekEnd ==
    \E offset \in {0 - 1, 0, 1, 2} :
        LET position == Len(file) + offset
        IN /\ Running
           /\ position <= MaxPos
           /\ IF position < 0
              THEN /\ Store(St)
                   /\ last' = Record("seek", "err", 0, <<>>)
              ELSE /\ Store([St EXCEPT !.fpos = position, !.pcursor = position,
                                       !.cursor = position])
                   /\ last' = Record("seek", "ok", position, <<>>)
           /\ UNCHANGED <<naive, acc>>

\* Read::read(buf) with a buffer of n bytes
Read ==
    \E n \in 1..MaxReadLen :
        LET r == read(St, n)
        IN /\ Running
           /\ Store(r.b)
           /\ last' = Record("read", r.status, Len(r.out), r.out)
           /\ UNCHANGED <<naive, acc>>

\* Write::write(buf)
Write ==
    \E s \in {10, 20}, n \in 1..MaxWriteLen :
        LET buf == MkBuf(s, n)
            r == write(St, buf)
        IN /\ Running
           /\ cursor + n <= MaxPos + 1
           /\ Store(r.b)
           /\ last' = Record("write", r.status, r.ret, <<>>)
           /\ naive' = IF r.status = "ok"
                       THEN file_write(naive, cursor, Slice(buf, 0, r.ret))
                       ELSE naive
           /\ UNCHANGED acc

\* Write::flush
Flush ==
    /\ Running
    /\ Store(flush(St))
    /\ last' = Record("flush", "ok", 0, <<>>)
    /\ UNCHANGED <<naive, acc>>

\* FileBuffer::clear_cache
ClearCache ==
    /\ Running
    /\ Store(clear_cache(St))
    /\ last' = Record("clear_cache", "ok", 0, <<>>)
    /\ UNCHANGED <<naive, acc>>

\* no Engine is opened for item calls
ItemIdle ==
    /\ efile = <<>>
    /\ eres = [op |-> "none"]

\* the concurrent wrapper before it is spawned
ConcIdle ==
    /\ ItemIdle
    /\ feature = "sync"
    /\ chan = [queue |-> <<>>, rx |-> TRUE]
    /\ reqs = <<>>
    /\ clients = <<>>
    /\ actor = [pc |-> "recv", cur |-> 0, eng |-> 0, closed |-> FALSE, panicked |-> 0]
    /\ served = <<>>
    /\ arrivals = <<>>

\* FileBufferOptions::build: the configurations and backing streams considered
Init ==
    /\ block_size \in 1..MaxBlockSize
    /\ max_blocks \in 0..MaxMaxBlocks
    /\ ideal_blocks \in 0..max_blocks
    /\ \E n \in 0..MaxFileLen : file = MkFile(n)
    /\ naive = file
    /\ blocks = <<>>
    /\ modified = {}
    /\ cursor = 0
    /\ access_count = 0
    /\ pcursor = None
    /\ fpos = 0
    /\ nops = 0
    /\ acc = <<>>
    /\ astate = Normal
    /\ fpend = None
    /\ want = <<>>
    /\ ConcIdle
    /\ CodecIdle
    /\ last = [op |-> "new", status |-> "ok", ret |-> 0, out |-> <<>>,
               pre_cursor |-> 0, pre_end |-> 0, pure |-> TRUE]

Next ==
    \/ SeekStart
    \/ SeekCurrent
    \/ SeekEnd
    \/ Read
    \/ Write
    \/ Flush
    \/ ClearCache

Spec == Init /\ [][Next]_vars

\* ------------------------------------------------------------------ read all
\* The caller reads from position 0 until read returns 0, with a buffer size
\* of its choice at every call, and makes no other call.
ReadDone == last.op = "read" /\ (last.ret = 0 \/ last.status = "panic")

ReadNext ==
    \E n \in 1..MaxReadLen :
        LET r == read(St, n)
        IN /\ ~ReadDone
           /\ Store(r.b)
           /\ last' = Record("read", r.status, Len(r.out), r.out)
           /\ acc' = acc \o r.out
           /\ UNCHANGED naive

SpecReadAll == Init /\ [][ReadNext]_vars

\* ------------------------------------------------------------------ FileBufferAsync
\* The state of FileBufferAsync and of its backing stream as one record. fuel
\* is the number of operations of the backing stream that complete during this
\* poll before one returns Poll::Pending.
ASt(fuel) ==
    [blocks |-> blocks, modified |-> modified, cursor |-> cursor,
     access_count |-> access_count, block_size |-> block_size,
     max_blocks |-> max_blocks, ideal_blocks |-> ideal_blocks,
     pcursor |-> pcursor, file |-> file, fpos |-> fpos,
     state |-> astate, fpend |-> fpend, fuel |-> fuel]

Ready(b, val) == [b |-> b, poll |-> "ready", val |-> val]

Pending(b) == [b |-> b, poll |-> "pending", val |-> 0]

Failed(b) == [b |-> b, poll |-> "err", val |-> 0]

Panicked(b) == [b |-> b, poll |-> "panic", val |-> 0]

\* F::start_seek: the stream starts moving to the target
F_start_seek(b, target) == [b EXCEPT !.fpend = target]

\* F::poll_complete that returns Ready: the seek in flight, if any, lands
F_poll_complete(b) ==
    IF b.fpend = None THEN b
    ELSE [b EXCEPT !.fpos = b.fpend, !.fpend = None, !.fuel = b.fuel - 1]

\* F::poll_complete is Pending only while a seek is in flight
F_seek_pending(b) == b.fpend # None /\ b.fuel = 0

\* the absolute target of a SeekFrom on the backing stream
F_target(b, from, off) ==
    IF from = "Start" THEN off
    ELSE IF from = "End" THEN Len(b.file) + off
    ELSE b.fpos + off

\* FileBufferAsync::internal_cursor_poll_complete
internal_cursor_poll_complete(b) ==
    LET s == b.state
        b0 == [b EXCEPT !.state = Normal]
    IN IF s.tag = "Normal" THEN Ready(b0, 0)
       ELSE IF s.tag = "StartSeek" /\ s.from = "Start"
       THEN IF b0.pcursor = s.off THEN Ready(b0, s.off)
            ELSE IF F_seek_pending(b0) THEN Pending([b0 EXCEPT !.state = s])
            ELSE LET b1 == F_start_seek(F_poll_complete(b0), s.off)
                 IN IF F_seek_pending(b1) THEN Pending([b1 EXCEPT !.state = Seeking])
                    ELSE LET b2 == F_poll_complete(b1)
                         IN Ready([b2 EXCEPT !.pcursor = b2.fpos], b2.fpos)
       ELSE IF s.tag = "StartSeek"
       THEN IF F_target(b0, s.from, s.off) < 0 THEN Failed(b0)
            ELSE LET b1 == F_start_seek(b0, F_target(b0, s.from, s.off))
                 IN IF F_seek_pending(b1) THEN Pending([b1 EXCEPT !.state = Seeking])
                    ELSE LET b2 == F_poll_complete(b1)
                         IN Ready([b2 EXCEPT !.pcursor = b2.fpos], b2.fpos)
       ELSE IF s.tag = "Seeking"
       THEN IF F_seek_pending(b0) THEN Pending([b0 EXCEPT !.state = Seeking])
            ELSE LET b2 == F_poll_complete(b0)
                 IN Ready([b2 EXCEPT !.pcursor = b2.fpos], b2.fpos)
       ELSE IF s.tag \in {"Reading", "Writing"} THEN Ready(b, 0)
       ELSE Failed(b0)

\* FileBufferAsync::internal_cursor_try_seek(SeekFrom::Start(position))
internal_cursor_try_seek(b, position) ==
    IF b.state.tag = "Normal"
    THEN internal_cursor_poll_complete([b EXCEPT !.state = StartSeek("Start", position)])
    ELSE internal_cursor_poll_complete(b)

\* FileBufferAsync::internal_poll_read_block; val is `exists`
RECURSIVE internal_poll_read_block(_, _)
internal_poll_read_block(b, block) ==
    LET s == b.state
        b0 == [b EXCEPT !.state = Normal]
    IN IF s.tag = "Normal"
       THEN LET r == internal_cursor_try_seek(b0, block * b.block_size)
            IN IF r.poll # "ready" THEN r
               ELSE internal_poll_read_block(
                        [r.b EXCEPT !.state = Reading(block, Zeros(b.block_size), 0)], block)
       ELSE IF s.tag = "Reading"
       THEN \* the block of the saved state, not the one asked for
            IF b0.fuel = 0 THEN Pending(b)
            ELSE LET got == file_read(b0.file, b0.fpos, b0.block_size - s.n)
                     filled == s.n + Len(got)
                     buf == Patch(s.buf, s.n, got)
                     b1 == [b0 EXCEPT !.fuel = b0.fuel - 1,
                                      !.fpos = b0.fpos + Len(got),
                                      !.pcursor = s.block * b0.block_size + filled]
                 IN IF filled = b0.block_size THEN Ready(insert(b1, s.block, buf), TRUE)
                    ELSE IF Len(got) = 0
                    THEN IF filled = 0 THEN Ready(b1, FALSE)
                         ELSE Ready(insert(b1, s.block, Slice(buf, 0, filled)), TRUE)
                    ELSE internal_poll_read_block(
                             [b1 EXCEPT !.state = Reading(s.block, buf, filled)], s.block)
       ELSE IF s.tag \in {"Writing", "Closing"} THEN Failed(b0)
       ELSE LET r == internal_cursor_poll_complete(b)
            IN IF r.poll = "ready" THEN internal_poll_read_block(r.b, block) ELSE r

\* FileBufferAsync::internal_poll_write_block
RECURSIVE internal_poll_write_block(_, _)
internal_poll_write_block(b, block) ==
    LET s == b.state
        b0 == [b EXCEPT !.state = Normal]
    IN IF s.tag = "Normal"
       THEN LET r == internal_cursor_try_seek(b0, block * b.block_size)
            IN IF r.poll # "ready" THEN r
               ELSE IF block \notin DOMAIN r.b.blocks THEN Failed(r.b)
               ELSE internal_poll_write_block(
                        [r.b EXCEPT !.state = Writing(block, r.b.blocks[block].data, 0)], block)
       ELSE IF s.tag = "Reading" THEN Failed(b0)
       ELSE IF s.tag = "Writing"
       THEN \* the block and the bytes of the saved state
            IF b0.fuel = 0 THEN Pending(b)
            ELSE LET rest == Slice(s.buf, s.n, Len(s.buf))
                     b1 == [b0 EXCEPT !.fuel = b0.fuel - 1,
                                      !.file = file_write(b0.file, b0.fpos, rest),
                                      !.fpos = b0.fpos + Len(rest),
                                      !.pcursor = s.block * b0.block_size + Len(s.buf)]
                 IN Ready(mark_clean(b1, s.block), 0)
       ELSE IF s.tag = "Closing" THEN Failed(b)
       ELSE LET r == internal_cursor_poll_complete(b)
            IN IF r.poll = "ready" THEN internal_poll_write_block(r.b, block) ELSE r

\* AsyncRead::poll_read, the loop; val is the bytes put into the ReadBuf
RECURSIVE poll_read_loop(_, _, _)
poll_read_loop(b, n, out) ==
    IF Len(out) >= n THEN Ready(purge_if_full(b), out)
    ELSE LET sect == b.cursor \div b.block_size
             offset == b.cursor % b.block_size
         IN IF sect \in DOMAIN b.blocks
            THEN LET b1 == get_block(b, sect)
                     data == b1.blocks[sect].data
                 IN IF offset > Len(data) THEN Panicked(b1)
                    ELSE LET to_read == Min(Len(data) - offset, n - Len(out))
                         IN IF to_read = 0 THEN Ready(purge_if_full(b1), out)
                            ELSE poll_read_loop([b1 EXCEPT !.cursor = b1.cursor + to_read], n,
                                                out \o Slice(data, offset, offset + to_read))
            ELSE IF Len(out) > 0 THEN Ready(b, out)
                 ELSE LET r == internal_poll_read_block(b, sect)
                      IN IF r.poll # "ready" THEN r
                         ELSE IF ~r.val THEN Ready(purge_if_full(r.b), out)
                         ELSE poll_read_loop(r.b, n, out)

\* AsyncRead::poll_read
poll_read(b, n) == poll_read_loop(b, n, <<>>)

\* AsyncWrite::poll_write, the loop; val is `written`
RECURSIVE poll_write_loop(_, _, _)
poll_write_loop(b, buf, written) ==
    IF written >= Len(buf) THEN Ready(purge_if_full(b), written)
    ELSE LET sect == b.cursor \div b.block_size
             offset == b.cursor % b.block_size
             rest == Slice(buf, written, Len(buf))
         IN IF sect \in DOMAIN b.blocks
            THEN LET b1 == mark_modified(get_block(b, sect), sect)
                     data == b1.blocks[sect].data
                 IN IF offset > Len(data) THEN Panicked(b1)
                    ELSE LET to_write == Min(Len(data) - offset, Len(rest))
                             data1 == Patch(data, offset, Slice(rest, 0, to_write))
                             written1 == written + to_write
                             rest1 == Slice(buf, written1, Len(buf))
                             to_extend == IF Len(data1) < b.block_size
                                          THEN Min(b.block_size - Len(data1), Len(rest1))
                                          ELSE 0
                             data2 == data1 \o Slice(rest1, 0, to_extend)
                         IN poll_write_loop([b1 EXCEPT !.blocks[sect].data = data2,
                                                       !.cursor = b1.cursor + to_extend + to_write],
                                            buf, written1)
            ELSE IF offset = 0 /\ Len(rest) > b.block_size
                 THEN LET b1 == mark_modified(insert(b, sect, Slice(rest, 0, b.block_size)), sect)
                      IN poll_write_loop([b1 EXCEPT !.cursor = b1.cursor + b.block_size],
                                         buf, written + b.block_size)
            ELSE IF written > 0 THEN Ready(purge_if_full(b), written)
            ELSE LET r == internal_poll_read_block(b, sect)
                 IN IF r.poll # "ready" THEN r
                    ELSE IF ~r.val
                    THEN \* create a new block: the bytes go to the block's start
                         LET to_write == Min(b.block_size, Len(rest))
                             b1 == mark_modified(insert(r.b, sect, Slice(rest, 0, to_write)), sect)
                         IN poll_write_loop([b1 EXCEPT !.cursor = b1.cursor + to_write],
                                            buf, written + to_write)
                    ELSE poll_write_loop(r.b, buf, written)

\* AsyncWrite::poll_write
poll_write(b, buf) == poll_write_loop(b, buf, 0)

\* AsyncWrite::poll_flush
RECURSIVE poll_flush(_)
poll_flush(b) ==
    IF b.modified # {}
    THEN LET r == internal_poll_write_block(b, get_next_modified_block(b))
         IN IF r.poll # "ready" THEN r ELSE poll_flush(r.b)
    ELSE IF b.fuel = 0 THEN Pending(b)
    ELSE Ready(purge_if_full([b EXCEPT !.fuel = b.fuel - 1]), 0)

\* AsyncSeek::poll_complete
poll_complete(b) ==
    LET s == b.state
        b0 == [b EXCEPT !.state = Normal]
    IN IF s.tag = "Normal" THEN Ready(b0, b0.cursor)
       ELSE IF s.tag = "StartSeek" /\ s.from = "Start"
       THEN Ready([b0 EXCEPT !.cursor = s.off], s.off)
       ELSE IF s.tag = "StartSeek" /\ s.from = "Current"
       THEN IF b0.cursor + s.off < 0 THEN Failed(b0)
            ELSE Ready([b0 EXCEPT !.cursor = b0.cursor + s.off], b0.cursor + s.off)
       ELSE IF s.tag = "StartSeek"
       THEN IF F_target(b0, s.from, s.off) < 0 THEN Failed(b0)
            ELSE LET b1 == F_start_seek(b0, F_target(b0, s.from, s.off))
                 IN IF F_seek_pending(b1) THEN Pending([b1 EXCEPT !.state = Seeking])
                    ELSE LET b2 == F_poll_complete(b1)
                         IN Ready([b2 EXCEPT !.cursor = b2.fpos, !.pcursor = b2.fpos], b2.fpos)
       ELSE IF s.tag = "Seeking"
       THEN IF F_seek_pending(b0) THEN Pending([b0 EXCEPT !.state = Seeking])
            ELSE LET b2 == F_poll_complete(b0)
                 IN Ready([b2 EXCEPT !.cursor = b2.fpos, !.pcursor = b2.fpos], b2.fpos)
       ELSE Failed(b0)

\* ------------------------------------------------------------------ async calls
\* Every action is one poll of one operation. A future that is dropped while
\* pending is simply never polled again: the next action is another operation.
ARunning == last.status # "panic" /\ nops < MaxAOps

ARecord(op, r) ==
    [op |-> op, status |-> IF r.poll = "ready" THEN "ok" ELSE r.poll,
     ret |-> 0, out |-> <<>>, pre_cursor |-> cursor, pre_end |-> 0,
     pure |-> last.pure]

AStore(b) ==
    /\ blocks' = b.blocks
    /\ modified' = b.modified
    /\ cursor' = b.cursor
    /\ access_count' = b.access_count
    /\ pcursor' = b.pcursor
    /\ file' = b.file
    /\ fpos' = b.fpos
    /\ astate' = b.state
    /\ fpend' = b.fpend
    /\ nops' = nops + 1
    /\ UNCHANGED <<block_size, max_blocks, ideal_blocks, naive, acc>>
    /\ UNCHANGED <<concvars, codecvars, itemvars>>

\* the blocks a poll_write left modified with new contents
Touched(b) ==
    {k \in b.modified \cap DOMAIN b.blocks :
        \/ k \notin DOMAIN blocks
        \/ k \notin modified
        \/ blocks[k].data # b.blocks[k].data}

\* AsyncSeek::start_seek
AStartSeek ==
    \E from \in {"Start", "Current", "End"}, off \in (0 - 1)..MaxAPos :
        /\ ARunning
        /\ from = "Start" => off >= 0
        /\ from = "Current" => off \in {0 - 1, 1}
        /\ from = "End" => off \in {0 - 1, 0}
        /\ AStore([ASt(0) EXCEPT !.state = StartSeek(from, off)])
        /\ last' = ARecord("start_seek", Ready(St, 0))
        /\ UNCHANGED want

\* AsyncSeek::poll_complete
APollComplete ==
    \E fuel \in 0..MaxFuel :
        LET r == poll_complete(ASt(fuel))
        IN /\ ARunning
           /\ r.b.cursor <= MaxAPos
           /\ AStore(r.b)
           /\ last' = ARecord("poll_complete", r)
           /\ UNCHANGED want

\* AsyncRead::poll_read with a ReadBuf of n bytes
APollRead ==
    \E n \in 1..MaxALen, fuel \in 0..MaxFuel :
        LET r == poll_read(ASt(fuel), n)
        IN /\ ARunning
           /\ AStore(r.b)
           /\ last' = ARecord("poll_read", r)
           /\ UNCHANGED want

\* AsyncWrite::poll_write
APollWrite ==
    \E s \in {10, 20}, n \in 1..MaxALen, fuel \in 0..MaxFuel :
        LET r == poll_write(ASt(fuel), MkBuf(s, n))
        IN /\ ARunning
           /\ cursor + n <= MaxAPos + 1
           /\ AStore(r.b)
           /\ last' = ARecord("poll_write", r)
           /\ want' = IF r.poll = "panic" THEN want
                      ELSE [k \in (DOMAIN want) \cup Touched(r.b) |->
                               IF k \in Touched(r.b) THEN r.b.blocks[k].data ELSE want[k]]

\* AsyncWrite::poll_flush
APollFlush ==
    \E fuel \in 0..MaxFuel :
        LET r == poll_flush(ASt(fuel))
        IN /\ ARunning
           /\ AStore(r.b)
           /\ last' = ARecord("poll_flush", r)
           /\ UNCHANGED want

\* FileBufferOptions::build for the cooperative buffer
AInit ==
    /\ Init
    /\ block_size <= MaxABlockSize
    /\ max_blocks <= MaxAMaxBlocks
    /\ Len(file) <= MaxAFileLen

ANext ==
    \/ AStartSeek
    \/ APollComplete
    \/ APollRead
    \/ APollWrite
    \/ APollFlush

SpecAsync == AInit /\ [][ANext]_vars

\* ------------------------------------------------------------------ Engine

\* the stream the wrapped engine reads: Unsigned(1) mark, a data byte that is
\* no mark id, Null mark
EngFile == <<100, 3, 192>>

NULL_ID == 192
UNSIGNED_ID == 100
SIGNED_ID == 104
FLOAT_ID == 108
CHAR_ID == 112
STRING_ID == 84
ARRAY_ID == 64
LIST_ID == 68
STRUCT_ID == 72
MAP_ID == 76
ENUM_ID == 116
SPACE_ID == 128
PADDING_ID == 4
POINTER_ID == 40
RC_ID == 44
HEAP_ID == 16

\* id & 0b1111_1100
IdOf(id) == id - (id % 4)

\* len_b: 1 << (id & 0b11)
len_b(id) == 2 ^ (id % 4)

\* SeekFrom of a request
Start(p) == [from |-> "start", off |-> p]
Current(o) == [from |-> "current", off |-> o]

\* FileBuffer::seek of the engine's reader
eng_seek(cur, location) ==
    IF location.from = "start" THEN location.off ELSE cur + location.off

\* read_u8 of the engine's reader at pos of the stream f: the whole stream
\* sits in one short cached block, so a read past its end indexes outside
\* the block
read_u8(f, pos) ==
    IF pos > Len(f) THEN [out |-> "panic", mark |-> <<>>, eng |-> pos]
    ELSE IF pos = Len(f)
        THEN [out |-> "err", mark |-> <<"UnexpectedEof">>, eng |-> pos]
    ELSE [out |-> "ok", mark |-> <<f[pos + 1]>>, eng |-> pos + 1]

\* the operator `?` on the results of the rich dialect
WhenOk(r, F(_)) == IF r.out = "ok" THEN F(r) ELSE r

\* Ok((mark, len)) with the reader left at eng, and Err(MbonError::InvalidMark)
Parsed(mark, eng) == [out |-> "ok", mark |-> mark, eng |-> eng]
InvalidMark(eng) == [out |-> "err", mark |-> <<"InvalidMark">>, eng |-> eng]

RECURSIVE Size_parse_loop(_, _, _, _)

\* the loop of Size::parse: byte i carries bits 7i .. 7i + 6
Size_parse_loop(f, pos, i, value) ==
    WhenOk(read_u8(f, pos), LAMBDA r :
        IF i = 9 /\ r.mark[1] > 1 THEN InvalidMark(r.eng)
        ELSE IF r.mark[1] < 128
            THEN Parsed(<<value + (r.mark[1] % 128) * 128 ^ i>>, r.eng)
        ELSE Size_parse_loop(f, r.eng, i + 1, value + (r.mark[1] % 128) * 128 ^ i))

\* Size::parse
Size_parse(f, pos) == Size_parse_loop(f, pos, 0, 0)

RECURSIVE Mark_parse_at(_, _)

\* the match of Mark::parse on the id byte, the reader at p
mark_of_id(f, id, p) ==
    CASE IdOf(id) = NULL_ID -> Parsed(<<"Null">>, p)
      [] IdOf(id) = UNSIGNED_ID -> Parsed(<<"Unsigned", len_b(id)>>, p)
      [] IdOf(id) = SIGNED_ID -> Parsed(<<"Signed", len_b(id)>>, p)
      [] IdOf(id) = FLOAT_ID -> Parsed(<<"Float", len_b(id)>>, p)
      [] IdOf(id) = CHAR_ID -> Parsed(<<"Char", len_b(id)>>, p)
      [] IdOf(id) = STRING_ID ->
             WhenOk(Size_parse(f, p), LAMBDA n : Parsed(<<"String", n.mark[1]>>, n.eng))
      [] IdOf(id) = ARRAY_ID ->
             WhenOk(Mark_parse_at(f, p), LAMBDA v :
             WhenOk(Size_parse(f, v.eng), LAMBDA n :
                 Parsed(<<"Array", v.mark, n.mark[1]>>, n.eng)))
      [] IdOf(id) = LIST_ID ->
             WhenOk(Size_parse(f, p), LAMBDA n : Parsed(<<"List", n.mark[1]>>, n.eng))
      [] IdOf(id) = STRUCT_ID ->
             WhenOk(Mark_parse_at(f, p), LAMBDA k :
             WhenOk(Mark_parse_at(f, k.eng), LAMBDA v :
             WhenOk(Size_parse(f, v.eng), LAMBDA n :
                 Parsed(<<"Struct", k.mark, v.mark, n.mark[1]>>, n.eng))))
      [] IdOf(id) = MAP_ID ->
             WhenOk(Size_parse(f, p), LAMBDA n : Parsed(<<"Map", n.mark[1]>>, n.eng))
      [] IdOf(id) = ENUM_ID ->
             WhenOk(Mark_parse_at(f, p), LAMBDA v :
                 Parsed(<<"Enum", len_b(id), v.mark>>, v.eng))
      [] IdOf(id) = SPACE_ID -> Parsed(<<"Space">>, p)
      [] IdOf(id) = PADDING_ID ->
             WhenOk(Size_parse(f, p), LAMBDA n : Parsed(<<"Padding", n.mark[1]>>, n.eng))
      [] IdOf(id) = POINTER_ID -> Parsed(<<"Pointer", len_b(id)>>, p)
      [] IdOf(id) = RC_ID ->
             WhenOk(Mark_parse_at(f, p), LAMBDA v :
                 Parsed(<<"Rc", len_b(id), v.mark>>, v.eng))
      [] IdOf(id) = HEAP_ID ->
             WhenOk(Size_parse(f, p), LAMBDA n : Parsed(<<"Heap", n.mark[1]>>, n.eng))
      [] OTHER -> InvalidMark(p)

\* Mark::parse on the engine's reader at pos of the stream f
Mark_parse_at(f, pos) ==
    WhenOk(read_u8(f, pos), LAMBDA r : mark_of_id(f, r.mark[1], r.eng))

\* Mark::parse on the reader of the wrapped engine
Mark_parse(pos) == Mark_parse_at(EngFile, pos)

RECURSIVE data_len(_), mark_len_returns(_), mark_len(_)

\* Mark::data_len
data_len(mark) ==
    CASE mark[1] \in {"Unsigned", "Signed", "Float", "Char", "Pointer"} -> mark[2]
      [] mark[1] \in {"String", "List", "Map", "Padding", "Heap"} -> mark[2]
      [] mark[1] = "Array" -> data_len(mark[2]) * mark[3]
      [] mark[1] = "Struct" -> (data_len(mark[2]) + data_len(mark[3])) * mark[4]
      [] mark[1] \in {"Enum", "Rc"} -> mark[2] + data_len(mark[3])
      [] OTHER -> 0

\* Size::len: `while self.0 > 0` never ends for a size above 0, and the
\* loop does not run for the size 0
Size_len_returns(n) == ~(n > 0)
Size_len(n) == 0

\* whether Mark::mark_len returns
mark_len_returns(mark) ==
    CASE mark[1] \in {"String", "List", "Map", "Padding", "Heap"} ->
             Size_len_returns(mark[2])
      [] mark[1] = "Array" -> mark_len_returns(mark[2]) /\ Size_len_returns(mark[3])
      [] mark[1] = "Struct" ->
             /\ mark_len_returns(mark[2]) /\ mark_len_returns(mark[3])
             /\ Size_len_returns(mark[4])
      [] mark[1] \in {"Enum", "Rc"} -> mark_len_returns(mark[3])
      [] OTHER -> TRUE

\* Mark::mark_len
mark_len(mark) ==
    1 + CASE mark[1] \in {"String", "List", "Map", "Padding", "Heap"} ->
                 Size_len(mark[2])
          [] mark[1] = "Array" -> mark_len(mark[2]) + Size_len(mark[3])
          [] mark[1] = "Struct" ->
                 mark_len(mark[2]) + mark_len(mark[3]) + Size_len(mark[4])
          [] mark[1] \in {"Enum", "Rc"} -> mark_len(mark[3])
          [] OTHER -> 0

\* Mark::total_len
total_len(mark) == data_len(mark) + mark_len(mark)

\* Engine::parse_mark_sync
parse_mark(cur, location) ==
    LET pos == eng_seek(cur, location)
        m   == Mark_parse(pos)
    IN  IF m.out = "ok"
            THEN [out |-> "ok", val |-> <<m.mark, pos>>, eng |-> m.eng]
            ELSE [out |-> m.out, val |-> m.mark, eng |-> m.eng]

\* Engine::parse_item_sync
parse_item(cur, location) ==
    LET pos  == eng_seek(cur, location)
        m    == Mark_parse(pos)
        need == data_len(m.mark)
        have == Min(need, Len(EngFile) - m.eng)
    IN  IF m.out # "ok"
            THEN [out |-> m.out, val |-> m.mark, eng |-> m.eng]
        ELSE IF have < need
            THEN [out |-> "err", val |-> <<"UnexpectedEof">>, eng |-> m.eng + have]
        ELSE [out |-> "ok",
              val |-> <<m.mark, pos, Slice(EngFile, m.eng, m.eng + need)>>,
              eng |-> m.eng + need]

\* ------------------------------------------------------------------ items

\* read_exact of n bytes at pos of the stream f; an empty read asks the
\* reader for nothing
read_bytes(f, pos, n) ==
    IF n = 0 THEN [out |-> "ok", mark |-> <<>>, eng |-> pos]
    ELSE IF pos > Len(f) THEN [out |-> "panic", mark |-> <<>>, eng |-> pos]
    ELSE IF pos + n > Len(f)
        THEN [out |-> "err", mark |-> <<"UnexpectedEof">>, eng |-> Len(f)]
    ELSE [out |-> "ok", mark |-> SubSeq(f, pos + 1, pos + n), eng |-> pos + n]

\* Err(MbonError::InvalidData(_)), todo!(), and a call that never returns
InvalidData(eng) == [out |-> "err", mark |-> <<"InvalidData">>, eng |-> eng]
Todo(eng) == [out |-> "panic", mark |-> <<"todo">>, eng |-> eng]
Hang(eng) == [out |-> "hang", mark |-> <<>>, eng |-> eng]

\* Option::None of a data slot
NoData == [tag |-> "None"]

\* PartialItem::new
PartialItem(mark, location) == [mark |-> mark, data |-> NoData, location |-> location]

\* Array::new and Struct::new: n empty slots
Array_new(start, mark, n) ==
    [tag |-> "Array", items |-> [i \in 1..n |-> NoData], mark |-> mark, start |-> start]
Struct_new(start, key, val, n) ==
    [tag |-> "Struct", items |-> [i \in 1..n |-> <<NoData, NoData>>],
     key |-> key, val |-> val, start |-> start]

RECURSIVE List_parse_loop(_, _, _, _)

\* the loop of List::parse: a mark is read where the last mark ended
List_parse_loop(f, p, end, items) ==
    WhenOk(Mark_parse_at(f, p), LAMBDA m :
        IF m.eng = end THEN Parsed(Append(items, PartialItem(m.mark, p)), m.eng)
        ELSE IF m.eng > end THEN InvalidData(m.eng)
        ELSE List_parse_loop(f, m.eng, end, Append(items, PartialItem(m.mark, p))))

\* List::parse and Map::parse
List_parse(f, pos, l, tag) ==
    WhenOk(List_parse_loop(f, pos, pos + l, <<>>), LAMBDA r :
        Parsed([tag |-> tag, items |-> r.mark, start |-> pos, end |-> pos + l], r.eng))

\* Enum::parse: the variant word, the data left unfetched
Enum_parse(f, pos, b, mark) ==
    WhenOk(read_bytes(f, pos, b), LAMBDA r :
        Parsed([tag |-> "Enum", b |-> b, variant |-> r.mark, mark |-> mark,
                data |-> NoData, start |-> pos], r.eng))

\* U8::parse .. C32::parse: the bytes of the number
number_parse(f, pos, tag, b) ==
    WhenOk(read_bytes(f, pos, b), LAMBDA r :
        Parsed([tag |-> tag, b |-> b, v |-> r.mark], r.eng))

\* Str::parse
Str_parse(f, pos, l) ==
    WhenOk(read_bytes(f, pos, l), LAMBDA r :
        IF \A i \in DOMAIN r.mark : r.mark[i] < 128
            THEN Parsed([tag |-> "String", v |-> r.mark], r.eng)
            ELSE InvalidData(r.eng))

\* Data::parse with the reader at pos
Data_parse(f, pos, mark) ==
    CASE mark[1] = "Null" -> Parsed([tag |-> "Null"], pos)
      [] mark[1] \in {"Unsigned", "Signed"} -> number_parse(f, pos, mark[1], mark[2])
      [] mark[1] = "Float" ->
             IF mark[2] \in {4, 8} THEN number_parse(f, pos, mark[1], mark[2])
             ELSE InvalidMark(pos)
      [] mark[1] = "Char" ->
             IF mark[2] \in {1, 2, 4} THEN number_parse(f, pos, mark[1], mark[2])
             ELSE InvalidMark(pos)
      [] mark[1] = "String" -> Str_parse(f, pos, mark[2])
      [] mark[1] = "Array" -> Parsed(Array_new(pos, mark[2], mark[3]), pos)
      [] mark[1] = "List" -> List_parse(f, pos, mark[2], "List")
      [] mark[1] = "Struct" -> Parsed(Struct_new(pos, mark[2], mark[3], mark[4]), pos)
      [] mark[1] = "Map" -> List_parse(f, pos, mark[2], "Map")
      [] mark[1] = "Enum" ->
             IF mark[2] \in {1, 2, 4} THEN Enum_parse(f, pos, mark[2], mark[3])
             ELSE InvalidMark(pos)
      [] mark[1] = "Space" -> Parsed([tag |-> "Space"], pos)
      [] mark[1] \in {"Padding", "Pointer", "Rc", "Heap"} -> Todo(pos)

\* PartialItem::parse_data: seek to location + mark_len(), then Data::parse
parse_data(f, item) ==
    IF ~mark_len_returns(item.mark) THEN Hang(item.location)
    ELSE WhenOk(Data_parse(f, item.location + mark_len(item.mark), item.mark),
                LAMBDA d : Parsed([item EXCEPT !.data = d.mark], d.eng))

\* the item of one turn of parse_item_n's loop
next_item(f, item, with_data) ==
    IF with_data THEN parse_data(f, item) ELSE Parsed(item, item.location)

RECURSIVE parse_item_n_loop(_, _, _, _, _, _, _)

\* the loop of Engine::parse_item_n_sync and what follows it
parse_item_n_loop(f, pos, count, bytes, with_data, items, consumed) ==
    IF (count = None \/ Len(items) < count) /\ consumed < bytes
        THEN WhenOk(Mark_parse_at(f, pos), LAMBDA m :
             WhenOk(next_item(f, PartialItem(m.mark, pos), with_data), LAMBDA it :
                 IF ~mark_len_returns(m.mark) THEN Hang(pos)
                 ELSE parse_item_n_loop(f, pos + total_len(m.mark), count, bytes,
                                        with_data, Append(items, it.mark),
                                        consumed + total_len(m.mark))))
    ELSE IF consumed > bytes THEN InvalidMark(pos)
    ELSE Parsed(items, pos)

\* Engine::parse_item_n_sync
parse_item_n(f, cur, location, count, bytes, with_data) ==
    parse_item_n_loop(f, eng_seek(cur, location), count, bytes, with_data, <<>>, 0)

RECURSIVE Data_parse_full(_, _, _), parse_full_each(_, _, _, _),
          List_parse_full_loop(_, _, _, _)

\* the loops of Array::parse_full and Struct::parse_full: one value after the
\* other, one per mark of marks
parse_full_each(f, pos, marks, done) ==
    IF marks = <<>> THEN Parsed(done, pos)
    ELSE WhenOk(Data_parse_full(f, pos, Head(marks)), LAMBDA d :
             parse_full_each(f, d.eng, Tail(marks), Append(done, d.mark)))

\* PartialItem::parse_data_full: seek to location + mark_len(), then
\* Data::parse_full
parse_data_full(f, item) ==
    IF ~mark_len_returns(item.mark) THEN Hang(item.location)
    ELSE WhenOk(Data_parse_full(f, item.location + mark_len(item.mark), item.mark),
                LAMBDA d : Parsed([item EXCEPT !.data = d.mark], d.eng))

\* the loop of List::parse_full: mark and data of an item, then the next item
\* where the data ended
List_parse_full_loop(f, p, end, items) ==
    WhenOk(Mark_parse_at(f, p), LAMBDA m :
    WhenOk(parse_data_full(f, PartialItem(m.mark, p)), LAMBDA it :
        IF it.eng = end THEN Parsed(Append(items, it.mark), it.eng)
        ELSE IF it.eng > end THEN InvalidData(it.eng)
        ELSE List_parse_full_loop(f, it.eng, end, Append(items, it.mark))))

\* Data::parse_full with the reader at pos
Data_parse_full(f, pos, mark) ==
    CASE mark[1] = "Array" ->
             WhenOk(parse_full_each(f, pos, [i \in 1..mark[3] |-> mark[2]], <<>>),
                    LAMBDA r : Parsed([Array_new(pos, mark[2], mark[3])
                                          EXCEPT !.items = r.mark], r.eng))
      [] mark[1] = "Struct" ->
             WhenOk(parse_full_each(f, pos,
                        [i \in 1..2 * mark[4] |-> mark[2 + ((i + 1) % 2)]], <<>>),
                    LAMBDA r : Parsed([Struct_new(pos, mark[2], mark[3], mark[4])
                                          EXCEPT !.items = [i \in 1..mark[4] |->
                                              <<r.mark[2 * i - 1], r.mark[2 * i]>>]],
                                      r.eng))
      [] mark[1] \in {"List", "Map"} ->
             WhenOk(List_parse_full_loop(f, pos, pos + mark[2], <<>>), LAMBDA r :
                 Parsed([tag |-> mark[1], items |-> r.mark, start |-> pos,
                         end |-> pos + mark[2]], r.eng))
      [] mark[1] = "Enum" /\ mark[2] \in {1, 2, 4} ->
             WhenOk(Enum_parse(f, pos, mark[2], mark[3]), LAMBDA en :
             WhenOk(Data_parse_full(f, en.eng, mark[3]), LAMBDA d :
                 Parsed([en.mark EXCEPT !.data = d.mark], d.eng)))
      [] OTHER -> Data_parse(f, pos, mark)

\* ------------------------------------------------------------------ shells

\* Engine::parse_data_sync: seek, then Data::parse
parse_data_at(f, cur, location, mark) == Data_parse(f, eng_seek(cur, location), mark)

RECURSIVE Data_maybe_eq(_, _), items_maybe_eq(_, _)

\* Enum::maybe_eq
Enum_maybe_eq(l, r) ==
    IF l.mark # r.mark THEN "false"
    ELSE IF l.variant # r.variant THEN "false"
    ELSE IF l.data # NoData /\ r.data # NoData THEN Data_maybe_eq(l.data, r.data)
    ELSE IF l.start = r.start THEN "true"
    ELSE "none"

\* PartialItem::maybe_eq
PartialItem_maybe_eq(l, r) ==
    IF l.mark # r.mark THEN "false"
    ELSE IF l.data # NoData /\ r.data # NoData THEN Data_maybe_eq(l.data, r.data)
    ELSE IF l.location = r.location THEN "true"
    ELSE "none"

\* the loop of List::maybe_eq over the zipped items: `?` returns None at the
\* first pair that is undecided
items_maybe_eq(ls, rs) ==
    IF ls = <<>> \/ rs = <<>> THEN "true"
    ELSE IF PartialItem_maybe_eq(Head(ls), Head(rs)) = "true"
        THEN items_maybe_eq(Tail(ls), Tail(rs))
    ELSE PartialItem_maybe_eq(Head(ls), Head(rs))

\* List::maybe_eq
List_maybe_eq(l, r) ==
    IF Len(l.items) # Len(r.items) THEN "false" ELSE items_maybe_eq(l.items, r.items)

\* the first turn of the loop of Array::maybe_eq, which ends with `return None`
first_slot_maybe_eq(l, r) ==
    IF l # NoData /\ r # NoData /\ Data_maybe_eq(l, r) # "true"
        THEN Data_maybe_eq(l, r)
        ELSE "none"

\* Array::maybe_eq
Array_maybe_eq(l, r) ==
    IF Len(l.items) # Len(r.items) THEN "false"
    ELSE IF l.items = <<>> THEN "true"
    ELSE first_slot_maybe_eq(l.items[1], r.items[1])

\* Data::maybe_eq: Some(true), Some(false), None, or the panic of todo!()
Data_maybe_eq(l, r) ==
    CASE l.tag \in {"Null", "Space"} -> IF r.tag = l.tag THEN "true" ELSE "false"
      [] l.tag \in {"Unsigned", "Signed", "Float", "Char"} ->
             IF r.tag = l.tag /\ r.b = l.b /\ r.v = l.v THEN "true" ELSE "false"
      [] l.tag = "String" -> IF r.tag = "String" /\ r.v = l.v THEN "true" ELSE "false"
      [] l.tag = "List" -> IF r.tag = "List" THEN List_maybe_eq(l, r) ELSE "false"
      [] l.tag \in {"Array", "Struct", "Map"} -> "panic"
      [] l.tag = "Enum" ->
             IF r.tag = "Enum" /\ r.b = l.b THEN Enum_maybe_eq(l, r) ELSE "false"

\* Struct::fetch_nth: korv is true for an odd index and then selects the key
\* slot and the key mark. The result carries Some(data), or NoData for None,
\* and after a success the shell as the call leaves it
fetch_nth(f, this, index) ==
    IF index \div 2 >= Len(this.items) THEN Parsed(NoData, this)
    ELSE IF this.items[index \div 2 + 1][IF index % 2 # 0 THEN 1 ELSE 2] # NoData
        THEN Parsed(this.items[index \div 2 + 1][IF index % 2 # 0 THEN 1 ELSE 2], this)
    ELSE WhenOk(parse_data_at(f, 0,
                    Start(this.start
                          + (data_len(this.key) + data_len(this.val)) * (index \div 2)
                          + (IF index % 2 # 0 THEN 0 ELSE data_len(this.key))),
                    IF index % 2 # 0 THEN this.key ELSE this.val),
                LAMBDA d : Parsed(d.mark,
                    [this EXCEPT !.items[index \div 2 + 1][IF index % 2 # 0 THEN 1 ELSE 2]
                                     = d.mark]))

\* Struct::fetch_nth_key and Struct::fetch_nth_val
fetch_nth_key(f, this, index) == fetch_nth(f, this, index * 2)
fetch_nth_val(f, this, index) == fetch_nth(f, this, index * 2 + 1)

RECURSIVE fetch_by_key_from(_, _, _, _)

\* the loop of Struct::fetch_by_key from entry i on
fetch_by_key_from(f, this, key, i) ==
    IF i >= Len(this.items) THEN Parsed(NoData, this)
    ELSE WhenOk(fetch_nth_key(f, this, i), LAMBDA k :
             IF k.mark # NoData /\ Data_maybe_eq(k.mark, key) = "panic" THEN Todo(k.eng)
             ELSE IF k.mark # NoData /\ Data_maybe_eq(k.mark, key) = "true"
                 THEN fetch_nth_val(f, k.eng, i)
             ELSE fetch_by_key_from(f, k.eng, key, i + 1))

\* Struct::fetch_by_key
fetch_by_key(f, this, key) == fetch_by_key_from(f, this, key, 0)

\* the engine call on_action makes for a request
engine_call(cur, request) ==
    IF request.kind = "ParseMark" THEN parse_mark(cur, request.location)
    ELSE parse_item(cur, request.location)

\* Response::ParseMark / Response::ParseItem / Response::Stopped
Response(kind, res) == [kind |-> kind, out |-> res.out, val |-> res.val]
Stopped == [kind |-> "Stopped", out |-> "ok", val |-> <<>>]
NoResponse == [kind |-> "none", out |-> "none", val |-> <<>>]
ConnectionReset == [kind |-> "ConnectionReset", out |-> "err", val |-> <<>>]
Cancelled == [kind |-> "cancelled", out |-> "none", val |-> <<>>]

\* RequestE
ParseMark(location) == [kind |-> "ParseMark", location |-> location]
ParseItem(location) == [kind |-> "ParseItem", location |-> location]
Close == [kind |-> "Close", location |-> Start(0)]

\* the requests clients make
Requests ==
    {ParseMark(Start(0)), ParseMark(Current(0)), ParseItem(Current(0)),
     ParseMark(Start(Len(EngFile) + 1)), Close}

\* ------------------------------------------------------------------ concurrent wrapper

\* Request: a RequestE with its reply channel (tx: the Sender the request
\* carries is alive, rx: the client still holds the Receiver, sent: the
\* message in the reply channel), and what send_request returned
Request(c, request, queued) ==
    [client |-> c, request |-> request, tx |-> queued, rx |-> queued,
     sent |-> NoResponse,
     result |-> IF queued THEN NoResponse ELSE ConnectionReset,
     late |-> actor.closed,
     discarded |-> FALSE]

\* ChanSend::send on the request channel
chan_send(ch, id) ==
    IF ch.rx THEN [ch EXCEPT !.queue = Append(@, id)] ELSE ch

\* a variant of recv that hands out the newest message first
recv_newest(queue) ==
    [msg |-> queue[Len(queue)], rest |-> SubSeq(queue, 1, Len(queue) - 1)]

\* ChanRecv::recv on the request channel: the oldest message
recv(queue) == [msg |-> Head(queue), rest |-> Tail(queue)]

\* a variant of on_action that also leaves the loop when a reply is not taken
on_action_strict(request, delivered) == request.kind = "Close" \/ ~delivered

\* on_action's return value: whether program_loop returns
on_action(request, delivered) == request.kind = "Close"

\* dropping the request Receiver: the requests whose reply Sender goes with it
drop_receiver(feat, queue) ==
    IF feat = "sync" THEN {queue[i] : i \in DOMAIN queue} ELSE {}

\* send_request, first half: make the reply channel, send the Request
ClientSend(c, request) ==
    /\ clients[c].pc = "idle"
    /\ Len(reqs) < MaxReqs
    /\ LET id == Len(reqs) + 1 IN
       /\ reqs' = Append(reqs, Request(c, request, chan.rx))
       /\ chan' = chan_send(chan, id)
       /\ arrivals' = IF chan.rx THEN Append(arrivals, id) ELSE arrivals
       /\ clients' = [clients EXCEPT ![c] =
                         IF chan.rx THEN [pc |-> "waiting", id |-> id] ELSE @]
    /\ UNCHANGED <<feature, actor, served>>
    /\ UNCHANGED <<bufvars, codecvars, itemvars>>

\* send_request, second half: resp.recv() returns
ClientRecv(c) ==
    /\ clients[c].pc = "waiting"
    /\ LET id == clients[c].id IN
       /\ reqs[id].sent # NoResponse \/ ~reqs[id].tx
       /\ reqs' = [reqs EXCEPT ![id].result =
                      IF reqs[id].sent # NoResponse THEN reqs[id].sent
                      ELSE ConnectionReset]
    /\ clients' = [clients EXCEPT ![c].pc = "idle"]
    /\ UNCHANGED <<feature, chan, actor, served, arrivals>>
    /\ UNCHANGED <<bufvars, codecvars, itemvars>>

\* the future of send_request is dropped while it waits for the reply
ClientCancel(c) ==
    /\ feature = "async"
    /\ clients[c].pc = "waiting"
    /\ reqs' = [reqs EXCEPT ![clients[c].id].rx = FALSE,
                            ![clients[c].id].result = Cancelled]
    /\ clients' = [clients EXCEPT ![c].pc = "idle"]
    /\ UNCHANGED <<feature, chan, actor, served, arrivals>>
    /\ UNCHANGED <<bufvars, codecvars, itemvars>>

\* the client handle is dropped
ClientDrop(c) ==
    /\ clients[c].pc = "idle"
    /\ clients' = [clients EXCEPT ![c].pc = "gone"]
    /\ UNCHANGED <<feature, chan, reqs, actor, served, arrivals>>
    /\ UNCHANGED <<bufvars, codecvars, itemvars>>

\* program_loop: self.recv.recv() hands out a request
ActorRecv ==
    /\ actor.pc = "recv"
    /\ chan.queue # <<>>
    /\ actor' = [actor EXCEPT !.pc = "busy", !.cur = recv(chan.queue).msg]
    /\ chan' = [chan EXCEPT !.queue = recv(chan.queue).rest]
    /\ UNCHANGED <<feature, reqs, clients, served, arrivals>>
    /\ UNCHANGED <<bufvars, codecvars, itemvars>>

\* program_loop: self.recv.recv() fails, every client handle is gone
ActorRecvErr ==
    /\ actor.pc = "recv"
    /\ chan.queue = <<>>
    /\ \A c \in DOMAIN clients : clients[c].pc = "gone"
    /\ actor' = [actor EXCEPT !.pc = "returned"]
    /\ UNCHANGED <<feature, chan, reqs, clients, served, arrivals>>
    /\ UNCHANGED <<bufvars, codecvars, itemvars>>

\* on_action for RequestE::Close
ActorClose ==
    /\ actor.pc = "busy"
    /\ reqs[actor.cur].request.kind = "Close"
    /\ reqs' = [reqs EXCEPT ![actor.cur].sent = IF reqs[actor.cur].rx THEN Stopped ELSE @,
                            ![actor.cur].discarded = ~reqs[actor.cur].rx,
                            ![actor.cur].tx = FALSE]
    /\ actor' = [actor EXCEPT
                    !.pc = IF on_action(reqs[actor.cur].request, reqs[actor.cur].rx)
                               THEN "returned" ELSE "recv",
                    !.closed = TRUE]
    /\ UNCHANGED <<feature, chan, clients, served, arrivals>>
    /\ UNCHANGED <<bufvars, codecvars, itemvars>>

\* on_action for the engine requests
ActorDispatch ==
    /\ actor.pc = "busy"
    /\ reqs[actor.cur].request.kind # "Close"
    /\ LET r   == reqs[actor.cur]
           res == engine_call(actor.eng, r.request)
       IN  /\ served' = Append(served, actor.cur)
           /\ IF res.out = "panic"
                  THEN /\ reqs' = [reqs EXCEPT ![actor.cur].tx = FALSE]
                       /\ actor' = [actor EXCEPT !.pc = "returned", !.eng = res.eng,
                                                 !.panicked = actor.cur]
                  ELSE /\ reqs' = [reqs EXCEPT
                              ![actor.cur].sent =
                                  IF r.rx THEN Response(r.request.kind, res) ELSE @,
                              ![actor.cur].discarded = ~r.rx,
                              ![actor.cur].tx = FALSE]
                       /\ actor' = [actor EXCEPT
                              !.pc = IF on_action(r.request, r.rx)
                                         THEN "returned" ELSE "recv",
                              !.eng = res.eng]
    /\ UNCHANGED <<feature, chan, clients, arrivals>>
    /\ UNCHANGED <<bufvars, codecvars, itemvars>>

\* program_loop has returned or unwound: the wrapper, with its Receiver, is dropped
ActorDrop ==
    /\ actor.pc = "returned"
    /\ actor' = [actor EXCEPT !.pc = "dropped"]
    /\ reqs' = [id \in DOMAIN reqs |->
                   IF id \in drop_receiver(feature, chan.queue)
                       THEN [reqs[id] EXCEPT !.tx = FALSE] ELSE reqs[id]]
    /\ chan' = [queue |-> IF feature = "sync" THEN <<>> ELSE chan.queue,
                rx |-> FALSE]
    /\ UNCHANGED <<feature, clients, served, arrivals>>
    /\ UNCHANGED <<bufvars, codecvars, itemvars>>

\* ConcurrentEngineWrapper::new and spawn, with the client handle cloned
ConcInit ==
    /\ feature \in {"sync", "async"}
    /\ chan = [queue |-> <<>>, rx |-> TRUE]
    /\ reqs = <<>>
    /\ clients = [c \in 1..NClients |-> [pc |-> "idle", id |-> 0]]
    /\ actor = [pc |-> "recv", cur |-> 0, eng |-> 0, closed |-> FALSE, panicked |-> 0]
    /\ served = <<>>
    /\ arrivals = <<>>
    /\ ItemIdle
    /\ BufIdle
    /\ CodecIdle

ConcNext ==
    \/ \E c \in 1..NClients, request \in Requests : ClientSend(c, request)
    \/ \E c \in 1..NClients : ClientRecv(c)
    \/ \E c \in 1..NClients : ClientCancel(c)
    \/ \E c \in 1..NClients : ClientDrop(c)
    \/ ActorRecv
    \/ ActorRecvErr
    \/ ActorClose
    \/ ActorDispatch
    \/ ActorDrop

SpecConc == ConcInit /\ [][ConcNext]_vars

\* ------------------------------------------------------------------ AsyncParser

\* `read_u32::<BigEndian>()? as usize`: the four bytes taken as a u32, given
\* here by the i32 of the same bits, and widened without sign
U32AsUsize(i) ==
    IF i >= 0 THEN (IF i = Run THEN Length(1, 0) ELSE Length(0, i))
    ELSE IF i >= 0 - 2 THEN Length(2, i + 2)
    ELSE Length(1, (i + Run) + 2)

\* AsyncParser::next_size
next_size(s, p) ==
    OnOk(read_exact(s, p, 4), LAMBDA r : Got(U32AsUsize(BytesI32(r.v)), r.p))

RECURSIVE async_next_mark(_, _)

\* AsyncParser::next_mark, once the type t is read
async_mark_of_type(s, t) ==
    CASE t.v \in {"Bytes", "Str", "Object", "List", "Map"} ->
             OnOk(next_size(s, t.p), LAMBDA n : Got(LMark(t.v, n.v, <<>>), n.p))
      [] t.v = "Enum" ->
             OnOk(async_next_mark(s, t.p),
                  LAMBDA m : Got(LMark("Enum", Length(0, 0), <<m.v>>), m.p))
      [] t.v = "Array" ->
             OnOk(async_next_mark(s, t.p), LAMBDA m :
             OnOk(next_size(s, m.p), LAMBDA n :
                  Got(LMark("Array", n.v, <<m.v>>), n.p)))
      [] t.v = "Dict" ->
             OnOk(async_next_mark(s, t.p), LAMBDA k :
             OnOk(async_next_mark(s, k.p), LAMBDA v :
             OnOk(next_size(s, v.p), LAMBDA n :
                  Got(LMark("Dict", n.v, <<k.v, v.v>>), n.p))))
      [] OTHER -> Got(LMark(t.v, Length(0, 0), <<>>), t.p)

\* AsyncParser::next_mark
async_next_mark(s, p) == OnOk(next_type(s, p), LAMBDA t : async_mark_of_type(s, t))

\* ------------------------------------------------------------------ round trip calls

\* Dumper::new().write_value(v)
Dump ==
    /\ cpc = "value"
    /\ cbytes' = write_value(cval)
    /\ cpc' = "dumped"
    /\ UNCHANGED <<cval, cres>>
    /\ UNCHANGED <<bufvars, concvars, skipvars, itemvars>>

\* Parser::from(&bytes).next_value()
Parse ==
    /\ cpc = "dumped"
    /\ cbytes.ok
    /\ cres' = next_value(cbytes.out, 0)
    /\ cpc' = "parsed"
    /\ UNCHANGED <<cval, cbytes>>
    /\ UNCHANGED <<bufvars, concvars, skipvars, itemvars>>

CodecInit ==
    /\ cval \in Values
    /\ cbytes = Err
    /\ cres = Bad("err", 0)
    /\ cpc = "value"
    /\ SkipIdle
    /\ BufIdle
    /\ ConcIdle

CodecNext == Dump \/ Parse

SpecCodec == CodecInit /\ [][CodecNext]_vars

\* ------------------------------------------------------------------ skip calls

\* the values dumped after the value that is skipped
Followers == {Value("Int", <<0 - 1>>, <<>>), Value("Str", <<97>>, <<>>)}

\* the stream is whole, lost a token of the second value, or lost the second
\* value and the end of the first
Cuts == {0, 1, MaxCut}

\* a stream that lost its last k tokens
Truncated(r, k) == IF r.ok THEN Ok(SubSeq(r.out, 1, Len(r.out) - k)) ELSE Err

\* dumper.write_value(v) then dumper.write_value(w) into one Dumper
DumpTwo ==
    /\ cpc = "pair"
    /\ cbytes' = Truncated(Then(write_value(cval), write_value(cnext)), ccut)
    /\ cpc' = "written"
    /\ UNCHANGED <<cval, cres, cnext, ccut, cskip, cseek, cdelta>>
    /\ UNCHANGED <<bufvars, concvars, itemvars>>

\* Parser::from(&bytes).skip_next()
SkipNext ==
    /\ cpc = "written"
    /\ cbytes.ok
    /\ cskip' = skip_next(cbytes.out, 0)
    /\ cpc' = "skipped"
    /\ UNCHANGED <<cval, cbytes, cres, cnext, ccut, cseek, cdelta>>
    /\ UNCHANGED <<bufvars, concvars, itemvars>>

\* Parser::new(Cursor::new(&bytes)).seek_next()
SeekNext ==
    /\ cpc = "skipped"
    /\ cseek' = seek_next(cbytes.out, 0)
    /\ cpc' = "sought"
    /\ UNCHANGED <<cval, cbytes, cres, cnext, ccut, cskip, cdelta>>
    /\ UNCHANGED <<bufvars, concvars, itemvars>>

\* next_value on the parser that skipped
NextAfterSkip ==
    /\ cpc = "sought"
    /\ cskip.st = "ok"
    /\ cres' = next_value(cbytes.out, cskip.p)
    /\ cpc' = "after"
    /\ UNCHANGED <<cval, cbytes, cnext, ccut, cskip, cseek, cdelta>>
    /\ UNCHANGED <<bufvars, concvars, itemvars>>

SkipInit ==
    /\ cval \in Values
    /\ cnext \in Followers
    /\ ccut \in Cuts
    /\ cbytes = Err
    /\ cres = Bad("err", 0)
    /\ cskip = Bad("err", 0)
    /\ cseek = [st |-> "err", pos |-> Length(0, 0)]
    /\ cdelta = 0
    /\ cpc = "pair"
    /\ BufIdle
    /\ ConcIdle

SkipNextStep == DumpTwo \/ SkipNext \/ SeekNext \/ NextAfterSkip

SpecSkip == SkipInit /\ [][SkipNextStep]_vars

\* ------------------------------------------------------------------ decode calls

\* the values that dump as a List or a Map mark with a length below 2^31
Windowed ==
    {v \in Lists \cup {m \in Maps : Len(m.kids) \in {0, 4}} :
        /\ v.tag \in {"List", "Map"}
        /\ MarkOf(v).tag \in {"List", "Map"}
        /\ MarkOf(v).n[1] = 0
        /\ v.tag = "Map" /\ v.kids # <<>> => v.kids[1] = Value("Char", <<5>>, <<>>)}

\* the bytes after the stream's first value: nothing, or one more value
Tails == {Value("Null", <<>>, <<>>)} \cup Followers

\* the byte length a stream declares in its leading List or Map mark
Declared(out) == BytesI32(SubSeq(out, 2, 5))

\* a dumped List or Map whose declared byte length is changed by d
Relabel(r, d) ==
    IF r.ok
        THEN Ok(<<r.out[1]>> \o I32Bytes(Declared(r.out) + d)
                    \o SubSeq(r.out, 6, Len(r.out)))
        ELSE Err

\* the bytes handed to the parser: a List or Map with its length d off,
\* one more value, the last tokens lost
Forge ==
    /\ cpc = "forge"
    /\ cbytes' = Truncated(Then(Relabel(write_value(cval), cdelta),
                                write_value(cnext)), ccut)
    /\ cpc' = "forged"
    /\ UNCHANGED <<cval, cres, cnext, ccut, cskip, cseek, cdelta>>
    /\ UNCHANGED <<bufvars, concvars, itemvars>>

\* Parser::from(&bytes).next_value()
Decode ==
    /\ cpc = "forged"
    /\ cbytes.ok
    /\ cres' = next_value(cbytes.out, 0)
    /\ cpc' = "decoded"
    /\ UNCHANGED <<cval, cbytes, cnext, ccut, cskip, cseek, cdelta>>
    /\ UNCHANGED <<bufvars, concvars, itemvars>>

ForgeInit ==
    /\ cval \in Windowed
    /\ cnext \in Tails
    /\ ccut \in Cuts
    /\ cdelta \in {d \in (0 - MaxDelta)..MaxDelta : MarkOf(cval).n[2] + d >= 0}
    /\ cbytes = Err
    /\ cres = Bad("err", 0)
    /\ cskip = Bad("err", 0)
    /\ cseek = [st |-> "err", pos |-> Length(0, 0)]
    /\ cpc = "forge"
    /\ BufIdle
    /\ ConcIdle

ForgeNext == Forge \/ Decode

SpecForge == ForgeInit /\ [][ForgeNext]_vars

\* ------------------------------------------------------------------ item calls

\* the items the streams are made of: Null, an Unsigned of one and of two
\* bytes, an empty String and a String of one byte
ItemBytes == {<<192>>, <<100, 7>>, <<101, 1, 2>>, <<84, 0>>, <<84, 1, 97>>}

RECURSIVE Flatten(_)

\* the bytes of a sequence of items
Flatten(items) == IF items = <<>> THEN <<>> ELSE Head(items) \o Flatten(Tail(items))

\* the streams of at most MaxFileItems items
ItemFiles == {Flatten(items) : items \in UNION {[1..k -> ItemBytes] : k \in 0..MaxFileItems}}

\* engine.parse_item_n_sync(SeekFrom::Start(loc), count, bytes, parse_data)
\* on a newly opened Engine
ParseItemN(loc, count, bytes, with_data) ==
    /\ eres.op = "none"
    /\ eres' = [op |-> "parse_item_n", location |-> Start(loc), count |-> count,
                bytes |-> bytes, with_data |-> with_data,
                res |-> parse_item_n(efile, 0, Start(loc), count, bytes, with_data)]
    /\ UNCHANGED efile
    /\ UNCHANGED <<bufvars, concvars, codecvars>>

\* no request in flight, no buffer call and no codec call under way
Quiet ==
    /\ feature = "sync"
    /\ chan = [queue |-> <<>>, rx |-> TRUE]
    /\ reqs = <<>>
    /\ clients = <<>>
    /\ actor = [pc |-> "recv", cur |-> 0, eng |-> 0, closed |-> FALSE, panicked |-> 0]
    /\ served = <<>>
    /\ arrivals = <<>>
    /\ BufIdle
    /\ CodecIdle

\* a newly opened Engine on one of the streams, nothing else going on
OpenedOn(files) ==
    /\ efile \in files
    /\ eres = [op |-> "none"]
    /\ Quiet

ItemInit == OpenedOn(ItemFiles)

ItemNext ==
    \E loc \in 0..Len(efile), count \in {None} \cup 0..MaxCount,
       bytes \in 0..MaxBytes, with_data \in BOOLEAN :
        ParseItemN(loc, count, bytes, with_data)

SpecItems == ItemInit /\ [][ItemNext]_vars

\* ------------------------------------------------------------------ struct calls

\* the bytes of one entry: a key of one byte, a value of one or two bytes
EntryBytes(vb) == {<<k>> \o v : k \in 1..MaxKey, v \in [1..vb -> 1..MaxKey]}

\* the streams of one Struct item: the mark Struct(Unsigned(1), Unsigned(vb), n)
\* and its n entries
StructFiles ==
    UNION {{<<STRUCT_ID, UNSIGNED_ID, UNSIGNED_ID + vb - 1, n>> \o Flatten(es) :
               es \in [1..n -> EntryBytes(vb)]} : vb \in 1..2, n \in 0..MaxEntries}

\* the keys looked up: Data::U8(k)
Keys == {[tag |-> "Unsigned", b |-> 1, v |-> <<k>>] : k \in 1..MaxKey + 1}

\* Mark::parse at 0, then engine.parse_data_sync(&mark, Start(end of the mark))
OpenStruct ==
    /\ eres.op = "none"
    /\ eres' = [op |-> "parse_data", n |-> 0,
                shell |-> parse_data_at(efile, 0, Start(Mark_parse_at(efile, 0).eng),
                                        Mark_parse_at(efile, 0).mark).mark]
    /\ UNCHANGED efile
    /\ UNCHANGED <<bufvars, concvars, codecvars>>

\* shell.fetch_by_key(&mut engine, &key); the shell keeps what it fetched
FetchByKey(key) ==
    /\ eres.op \in {"parse_data", "fetch_by_key"}
    /\ eres.n < MaxFetches
    /\ eres' = [op |-> "fetch_by_key", n |-> eres.n + 1, key |-> key,
                res |-> fetch_by_key(efile, eres.shell, key),
                shell |-> IF fetch_by_key(efile, eres.shell, key).out = "ok"
                              THEN fetch_by_key(efile, eres.shell, key).eng
                              ELSE eres.shell]
    /\ UNCHANGED efile
    /\ UNCHANGED <<bufvars, concvars, codecvars>>

StructInit == OpenedOn(StructFiles)

StructNext == OpenStruct \/ \E key \in Keys : FetchByKey(key)

SpecStruct == StructInit /\ [][StructNext]_vars

\* ------------------------------------------------------------------ maybe_eq calls

\* what a slot or an item over the mark Unsigned(1) or Char(1) can hold:
\* nothing yet, or the number fetched
Slots(mark) == {NoData} \cup {[tag |-> mark[1], b |-> 1, v |-> <<k>>] : k \in 1..MaxKey}
SlotMarks == {<<"Unsigned", 1>>, <<"Char", 1>>}

\* the items, fetched or not, at one of two locations
Items ==
    UNION {{[PartialItem(mark, loc) EXCEPT !.data = d] : d \in Slots(mark), loc \in {0, 2}} :
              mark \in SlotMarks}

\* the Array shells of at most MaxSlots slots, each fetched or not
ArrayShells ==
    UNION {{[Array_new(0, mark, n) EXCEPT !.items = it] : it \in [1..n -> Slots(mark)]} :
              mark \in SlotMarks, n \in 0..MaxSlots}

\* the List shells of at most MaxSlots items over Unsigned(1), the items two
\* bytes apart from the start of the list
ListShells ==
    UNION {{[tag |-> "List",
             items |-> [i \in 1..n |->
                           [PartialItem(<<"Unsigned", 1>>, st + 2 * (i - 1))
                               EXCEPT !.data = d[i]]],
             start |-> st, end |-> st + 2 * n] : d \in [1..n -> Slots(<<"Unsigned", 1>>)]} :
              n \in 0..MaxSlots, st \in {0, 4}}

\* the Enum shells of one byte of variant, the data fetched or not
EnumShells ==
    UNION {{[tag |-> "Enum", b |-> 1, variant |-> <<k>>, mark |-> mark, data |-> d,
             start |-> loc] : d \in Slots(mark), k \in 1..MaxKey, loc \in {0, 2}} :
              mark \in SlotMarks}

\* the pairs compared: two shells of one kind
ShellPairs ==
    UNION {{[op |-> "pair", kind |-> k[1], lhs |-> l, rhs |-> r] : l \in k[2], r \in k[2]} :
              k \in {<<"PartialItem", Items>>, <<"Array", ArrayShells>>,
                     <<"List", ListShells>>, <<"Enum", EnumShells>>}}

\* lhs.maybe_eq(&rhs) on the pair
MaybeEq ==
    /\ eres.op = "pair"
    /\ eres' = [eres EXCEPT !.op = "maybe_eq",
                    !.res = CASE eres.kind = "PartialItem" ->
                                     PartialItem_maybe_eq(eres.lhs, eres.rhs)
                              [] eres.kind = "Array" -> Array_maybe_eq(eres.lhs, eres.rhs)
                              [] eres.kind = "List" -> List_maybe_eq(eres.lhs, eres.rhs)
                              [] eres.kind = "Enum" -> Enum_maybe_eq(eres.lhs, eres.rhs)]
    /\ UNCHANGED efile
    /\ UNCHANGED <<bufvars, concvars, codecvars>>

EqInit ==
    /\ efile = <<>>
    /\ eres \in {[op |-> pr.op, kind |-> pr.kind, lhs |-> pr.lhs, rhs |-> pr.rhs,
                  res |-> "-"] : pr \in ShellPairs}
    /\ Quiet

EqNext == MaybeEq

SpecEq == EqInit /\ [][EqNext]_vars

\* ------------------------------------------------------------------ data calls

\* the streams of one item over payload bytes 1..MaxKey: a Padding, a Pointer,
\* an Rc over Unsigned(1) and a Heap, and next to them a Null, an Unsigned, a
\* String, an Array and an Enum over Unsigned(1)
Payloads(n) == [1..n -> 1..MaxKey]
StubFiles ==
    UNION ({{<<id, n>> \o pl : pl \in Payloads(n)} :
               id \in {PADDING_ID, HEAP_ID, STRING_ID}, n \in 0..MaxSlots}
           \cup {{<<POINTER_ID + i>> \o pl : pl \in Payloads(2 ^ i)} : i \in 0..1}
           \cup {{<<RC_ID + i, UNSIGNED_ID>> \o pl : pl \in Payloads(2 ^ i + 1)} : i \in 0..1}
           \cup {{<<ARRAY_ID, UNSIGNED_ID, n>> \o pl : pl \in Payloads(n)} : n \in 0..MaxSlots}
           \cup {{<<ENUM_ID, UNSIGNED_ID>> \o pl : pl \in Payloads(2)},
                 {<<UNSIGNED_ID>> \o pl : pl \in Payloads(1)},
                 {<<NULL_ID>>}})

\* Mark::parse at 0, then Data::parse (through engine.parse_data_sync) or
\* Data::parse_full with the reader where the mark ended
ParseData(full) ==
    /\ eres.op = "none"
    /\ eres' = [op |-> IF full THEN "parse_full" ELSE "parse",
                m |-> Mark_parse_at(efile, 0),
                res |-> IF Mark_parse_at(efile, 0).out # "ok" THEN Mark_parse_at(efile, 0)
                        ELSE IF full
                            THEN Data_parse_full(efile, Mark_parse_at(efile, 0).eng,
                                                 Mark_parse_at(efile, 0).mark)
                        ELSE parse_data_at(efile, 0, Start(Mark_parse_at(efile, 0).eng),
                                           Mark_parse_at(efile, 0).mark)]
    /\ UNCHANGED efile
    /\ UNCHANGED <<bufvars, concvars, codecvars>>

StubInit == OpenedOn(StubFiles)

StubNext == \E full \in BOOLEAN : ParseData(full)

SpecStub == StubInit /\ [][StubNext]_vars

\* ------------------------------------------------------------------ mark calls

\* lengths and counts over the u32 range: 0, 1, 256, 2^31 - 2, 2^31 - 1, 2^31,
\* 2^32 - 3, 2^32 - 2 and 2^32 - 1, and 2^32, which is past it
MarkSizes ==
    {Length(0, 0), Length(0, 1), Length(0, 256), Length(0, Run - 1), Length(1, 0),
     Length(1, 1), Length(1, Run - 1), Length(2, 0), Length(2, 1), Length(2, 2)}

\* the marks that carry a size: Bytes, Str, Object, List and Map of a length,
\* Array and Dict of a count
SizedMarks ==
    {LMark(t, n, <<>>) : t \in {"Bytes", "Str", "Object", "List", "Map"}, n \in MarkSizes}
        \cup {LMark("Array", n, <<m>>) :
                 n \in MarkSizes,
                 m \in {LMark("Char", Length(0, 0), <<>>), LMark("Str", Length(1, 1), <<>>)}}
        \cup {LMark("Dict", n, <<LMark("Char", Length(0, 0), <<>>),
                                 LMark("Int", Length(0, 0), <<>>)>>) : n \in MarkSizes}

\* Dumper::write_mark(&mark)
WriteMark ==
    /\ cpc = "mark"
    /\ cbytes' = write_mark(cval)
    /\ cpc' = "marked"
    /\ UNCHANGED <<cval, cres>>
    /\ UNCHANGED <<bufvars, concvars, skipvars, itemvars>>

\* Parser::from(&bytes).next_mark()
NextMark ==
    /\ cpc = "marked"
    /\ cbytes.ok
    /\ cres' = next_mark(cbytes.out, 0)
    /\ cpc' = "sync"
    /\ UNCHANGED <<cval, cbytes>>
    /\ UNCHANGED <<bufvars, concvars, skipvars, itemvars>>

\* AsyncParser::from(bytes).next_mark()
AsyncNextMark ==
    /\ cpc = "marked"
    /\ cbytes.ok
    /\ cres' = async_next_mark(cbytes.out, 0)
    /\ cpc' = "async"
    /\ UNCHANGED <<cval, cbytes>>
    /\ UNCHANGED <<bufvars, concvars, skipvars, itemvars>>

MarkInit ==
    /\ cval \in SizedMarks
    /\ cbytes = Err
    /\ cres = Bad("err", 0)
    /\ cpc = "mark"
    /\ SkipIdle
    /\ BufIdle
    /\ ConcIdle

MarkNext == WriteMark \/ NextMark \/ AsyncNextMark

SpecMarks == MarkInit /\ [][MarkNext]_vars

\* ------------------------------------------------------------------ claims
\* C1: after a flush that returns Ok, following only seek/read/write/flush
\* calls, the backing stream holds the bytes of the naive writer that wrote
\* buf[..n] at the logical cursor for every write that returned n.
C1_FlushMatchesNaiveWriter ==
    (last.op = "flush" /\ last.status = "ok" /\ last.pure) => file = naive

\* C2: a read issued with the logical cursor at or beyond the end of the data
\* returns Ok(0): no bytes, no error, no panic.
C2_ReadAtEndReturnsZero ==
    (last.op = "read" /\ last.pre_cursor >= last.pre_end)
        => (last.status = "ok" /\ last.ret = 0)

\* C3: after every public call returns, the number of cached blocks is at most
\* max_blocks.
C3_CacheWithinMaxBlocks ==
    last.status = "ok" => Cardinality(DOMAIN blocks) <= max_blocks

\* C4: with no writes, reading from position 0 until read returns 0 yields the
\* backing stream's bytes, in order and each once, whatever the block size,
\* max_blocks, the read-buffer sizes and the blocks evicted between calls.
C4_ReadAllYieldsStream ==
    /\ last.status = "ok"
    /\ Len(acc) <= Len(file)
    /\ acc = Slice(file, 0, Len(acc))
    /\ cursor = Len(acc)
    /\ ReadDone => acc = file

\* C4 witness: the whole stream was read although it has more blocks than the
\* cache may hold, so blocks were evicted on the way.
C4_Witness ==
    /\ ReadDone
    /\ acc = file
    /\ Len(file) > block_size * (max_blocks + 1)
    /\ Len(file) % block_size # 0

\* C5: whatever pending read, write or flush was dropped before, once a flush
\* completes with Ok the backing stream holds, for every block written through
\* the buffer, the bytes the last write left in that block.
C5_FlushPersistsLatestWrites ==
    (last.op = "poll_flush" /\ last.status = "ok")
        => \A k \in DOMAIN want :
               /\ Len(file) >= k * block_size + Len(want[k])
               /\ Slice(file, k * block_size, k * block_size + Len(want[k])) = want[k]


\* the engine requests in the order they arrived on the request channel
EngineOrder == SelectSeq(arrivals, LAMBDA id : reqs[id].request.kind # "Close")

\* the single-threaded engine run over the first i requests of EngineOrder
RECURSIVE RefRun(_)
RefRun(i) ==
    engine_call(IF i = 1 THEN 0 ELSE RefRun(i - 1).eng, reqs[EngineOrder[i]].request)

\* send_request returned a Response (not an error, not dropped)
Replied(id) == reqs[id].result.kind \in {"ParseMark", "ParseItem", "Stopped"}

\* C6: the actor serves the requests in the order they arrived on the request
\* channel, and every reply a client receives answers its own request and is
\* what the single-threaded engine returns for the requests in arrival order
C6_RepliesMatchSequentialEngine ==
    /\ Len(served) <= Len(EngineOrder)
    /\ \A i \in 1..Len(served) : served[i] = EngineOrder[i]
    /\ \A id \in DOMAIN reqs :
           Replied(id) =>
               /\ reqs[id].result.kind =
                      (IF reqs[id].request.kind = "Close" THEN "Stopped"
                       ELSE reqs[id].request.kind)
               /\ reqs[id].request.kind # "Close" =>
                      \E i \in 1..Len(EngineOrder) :
                          /\ EngineOrder[i] = id
                          /\ reqs[id].result =
                                 Response(reqs[id].request.kind, RefRun(i))

\* two clients' requests were served interleaved and all were answered, the
\* second one successfully and relative to the cursor the first one left
C6_Witness ==
    /\ Len(served) >= 3
    /\ reqs[served[1]].client = reqs[served[3]].client
    /\ reqs[served[1]].client # reqs[served[2]].client
    /\ \A i \in 1..3 : Replied(served[i])
    /\ reqs[served[1]].result.out = "ok"
    /\ reqs[served[2]].result.out = "ok"
    /\ reqs[served[2]].request.location.from = "current"

\* C7: the Close the actor processes is answered Stopped and ends the loop;
\* a request sent after that is never dispatched, never gets a reply, and once
\* the actor has terminated its send_request can return ConnectionReset
C7_AfterCloseConnectionReset ==
    /\ actor.closed =>
           /\ actor.pc \in {"returned", "dropped"}
           /\ reqs[actor.cur].result \in {NoResponse, Stopped, Cancelled}
    /\ \A id \in DOMAIN reqs :
           reqs[id].late =>
               /\ \A i \in DOMAIN served : served[i] # id
               /\ reqs[id].result \in {NoResponse, ConnectionReset, Cancelled}
               /\ (actor.pc = "dropped" /\ reqs[id].result = NoResponse)
                      => ~reqs[id].tx

\* C8: no client waits forever: a request the engine answered has its response
\* (unless its client dropped the reply channel), and once the actor has
\* terminated every client still waiting has a response or a disconnected
\* reply channel to wake it
C8_NoClientWaitsForever ==
    /\ \A i \in DOMAIN served :
           served[i] # actor.panicked =>
               (reqs[served[i]].sent # NoResponse \/ reqs[served[i]].discarded)
    /\ actor.pc = "dropped" =>
           \A c \in DOMAIN clients :
               clients[c].pc = "waiting" =>
                   (reqs[clients[c].id].sent # NoResponse \/ ~reqs[clients[c].id].tx)

C10_RoundTrip ==
    cpc = "parsed" =>
        /\ cres.st = "ok"
        /\ cres.v = cval
        /\ cres.p = Len(cbytes.out)

\* strict structural equality of the marks of all elements of a sequence
AllMarksEqual(vs) ==
    vs # <<>> /\ \A i, j \in DOMAIN vs : MarkOf(vs[i]) = MarkOf(vs[j])

RECURSIVE BareData(_), MarkedData(_)

\* the bare data of the elements, one after the other
BareData(vs) ==
    IF vs = <<>> THEN <<>>
    ELSE write_data_value(Head(vs)).out \o BareData(Tail(vs))

\* mark and data of the elements, one after the other
MarkedData(vs) ==
    IF vs = <<>> THEN <<>>
    ELSE write_value(Head(vs)).out \o MarkedData(Tail(vs))

\* the four big-endian bytes of a u32
U32Bytes(len) == I32Bytes(U32AsI32(len))

C12_SkipThenNext ==
    (ccut = 0 /\ cpc \in {"skipped", "sought", "after"}) =>
        /\ cskip.st = "ok"
        /\ cskip.p = Len(write_value(cval).out)
        /\ cpc = "after" => (cres.st = "ok" /\ cres.v = cnext)

\* C13: decoding a List(n) or Map(n) succeeds only if the sizes (mark and
\* data) of the decoded items sum to exactly n, and a decoding that ends with
\* extra or missing bytes returns DataError
C13_WindowExactOrDataError ==
    (cpc = "decoded" /\ Len(cbytes.out) >= 5) =>
        /\ cres.st = "ok" => SumSizes(cres.v.kids) = Length(0, Declared(cbytes.out))
        /\ cres.st # "ok" => cres = DataError(cres.p)

RECURSIVE ItemsFrom(_, _, _, _, _, _)

\* the items that start at pos, each located where the one before it ends
\* (its mark as parsed, then data_len bytes of data), up to count items and
\* until bytes bytes are covered; InvalidMark when the last one crosses the
\* window; nothing is said of a stream with a mark that does not parse or
\* an item that runs past the end of the stream
ItemsFrom(f, pos, count, bytes, items, covered) ==
    IF (count = None \/ Len(items) < count) /\ covered < bytes
        THEN IF Mark_parse_at(f, pos).out # "ok" THEN [out |-> "none"]
             ELSE IF Mark_parse_at(f, pos).eng + data_len(Mark_parse_at(f, pos).mark)
                        > Len(f) THEN [out |-> "none"]
             ELSE ItemsFrom(f, Mark_parse_at(f, pos).eng + data_len(Mark_parse_at(f, pos).mark),
                            count, bytes,
                            Append(items, <<Mark_parse_at(f, pos).mark, pos>>),
                            covered + Mark_parse_at(f, pos).eng - pos
                                + data_len(Mark_parse_at(f, pos).mark))
    ELSE IF covered > bytes THEN [out |-> "err", items |-> <<"InvalidMark">>]
    ELSE [out |-> "ok", items |-> items]

\* marks and locations of the items a call returned
Located(items) == [i \in DOMAIN items |-> <<items[i].mark, items[i].location>>]

\* C14: parse_item_n returns, in order, the items that start at loc, each
\* located at the end of the one before, stopping at count items or at bytes
\* bytes, and returns InvalidMark if the last item parsed crosses loc + bytes
\* (for a window that lies inside the stream)
C14_ItemsInWindow ==
    (/\ eres.op = "parse_item_n"
     /\ eres.location.off + eres.bytes <= Len(efile)
     /\ ItemsFrom(efile, eres.location.off, eres.count, eres.bytes, <<>>, 0).out # "none")
        => /\ eres.res.out =
                  ItemsFrom(efile, eres.location.off, eres.count, eres.bytes, <<>>, 0).out
           /\ eres.res.out = "ok" =>
                  Located(eres.res.mark) =
                      ItemsFrom(efile, eres.location.off, eres.count, eres.bytes,
                                <<>>, 0).items
           /\ eres.res.out = "err" => eres.res.mark = <<"InvalidMark">>

\* the key and the value of entry i of the Struct item of the stream f, read
\* with the key mark and the value mark where the format puts them
KeyAt(f, i) ==
    Data_parse(f, Mark_parse_at(f, 0).eng
                  + i * (data_len(Mark_parse_at(f, 0).mark[2])
                         + data_len(Mark_parse_at(f, 0).mark[3])),
               Mark_parse_at(f, 0).mark[2]).mark
ValAt(f, i) ==
    Data_parse(f, Mark_parse_at(f, 0).eng
                  + i * (data_len(Mark_parse_at(f, 0).mark[2])
                         + data_len(Mark_parse_at(f, 0).mark[3]))
                  + data_len(Mark_parse_at(f, 0).mark[2]),
               Mark_parse_at(f, 0).mark[3]).mark

\* the entries of the stream f whose key is maybe_eq Some(true) to key
Matching(f, key) ==
    {i \in 0..Mark_parse_at(f, 0).mark[4] - 1 : Data_maybe_eq(KeyAt(f, i), key) = "true"}

\* C15: fetch_by_key(key) on a Struct shell returns the value of the first
\* entry whose key, read with the key mark at start + i*(key_len + val_len),
\* is maybe_eq Some(true) to key, that value being read with the value mark
\* at start + i*(key_len + val_len) + key_len, and None if no key matches.
C15_FetchByKeyFirstMatch ==
    eres.op = "fetch_by_key" =>
        /\ eres.res.out = "ok"
        /\ eres.res.mark =
               IF Matching(efile, eres.key) = {} THEN NoData
               ELSE ValAt(efile, CHOOSE i \in Matching(efile, eres.key) :
                                     \A j \in Matching(efile, eres.key) : i <= j)

\* the children of a shell as pairs of mark and data, and what the shell
\* carries besides them
Kids(kind, s) ==
    CASE kind = "List" -> [i \in DOMAIN s.items |->
                              [mark |-> s.items[i].mark, data |-> s.items[i].data]]
      [] kind = "Array" -> [i \in DOMAIN s.items |-> [mark |-> s.mark, data |-> s.items[i]]]
      [] OTHER -> <<[mark |-> s.mark, data |-> s.data]>>
Own(kind, s) == IF kind = "Enum" THEN s.variant ELSE <<>>

\* the marks or counts differ, or some pair of fetched children differs
Differ(kind, l, r) ==
    \/ Len(Kids(kind, l)) # Len(Kids(kind, r))
    \/ Own(kind, l) # Own(kind, r)
    \/ \E i \in DOMAIN Kids(kind, l) :
           \/ Kids(kind, l)[i].mark # Kids(kind, r)[i].mark
           \/ /\ Kids(kind, l)[i].data # NoData
              /\ Kids(kind, r)[i].data # NoData
              /\ Kids(kind, l)[i].data # Kids(kind, r)[i].data

\* every child is fetched on both sides
AllFetched(kind, l, r) ==
    /\ \A i \in DOMAIN Kids(kind, l) : Kids(kind, l)[i].data # NoData
    /\ \A i \in DOMAIN Kids(kind, r) : Kids(kind, r)[i].data # NoData

\* C16: maybe_eq on two PartialItem, List, Array or Enum shells returns
\* Some(false) if the marks or counts differ or any pair of fetched children
\* differs, wherever the pair sits; Some(true) if marks and counts match and
\* the fetched data compare equal; None only if some child is not fetched.
C16_MaybeEqThreeValued ==
    eres.op = "maybe_eq" =>
        /\ Differ(eres.kind, eres.lhs, eres.rhs) => eres.res = "false"
        /\ (~Differ(eres.kind, eres.lhs, eres.rhs)
                /\ AllFetched(eres.kind, eres.lhs, eres.rhs)) => eres.res = "true"
        /\ eres.res = "none" => ~AllFetched(eres.kind, eres.lhs, eres.rhs)

\* the marks Data::parse has nothing to build for
Unsupported == {"Padding", "Pointer", "Rc", "Heap"}

\* C17: for a Padding, Pointer, Rc or Heap mark, the mark parses, and
\* Data::parse and Data::parse_full on it return an error to the caller;
\* they neither return data nor abort the caller.
C17_UnsupportedMarksReturnError ==
    (eres.op \in {"parse", "parse_full"} /\ eres.m.out = "ok"
        /\ eres.m.mark[1] \in Unsupported) => eres.res.out = "err"

\* the streams that start with the id of one of the four kinds parse to a
\* mark of that kind
UnsupportedMarksParse ==
    (eres.op \in {"parse", "parse_full"}
        /\ IdOf(efile[1]) \in {PADDING_ID, POINTER_ID, RC_ID, HEAP_ID}) =>
            eres.m.out = "ok" /\ eres.m.mark[1] \in Unsupported

\* C18: every length or count of the u32 range that the Dumper writes in a
\* Bytes, Str, Object, Array, List, Dict or Map mark is read back as the same
\* number by Parser::next_mark and by AsyncParser::next_mark.
C18_SizesReadBack ==
    cpc \in {"sync", "async"} => cres.st = "ok" /\ cres.v = cval

\* the same for AsyncParser::next_mark alone, and the Dumper refuses exactly
\* the sizes past the u32 range
AsyncSizesReadBack ==
    /\ cpc = "async" => cres.st = "ok" /\ cres.v = cval
    /\ cpc = "marked" => (cbytes.ok <=> FitsU32(cval.n))

\* C19: on a seekable source seek_next and skip_next return the same result
\* on every input, complete or truncated, and after Ok both leave the source
\* at the first byte after the skipped value's data.
C19_SeekNextAsSkipNext ==
    cpc \in {"sought", "after"} =>
        /\ cseek.st = cskip.st
        /\ cskip.st = "ok" => cseek.pos = BytePos(cbytes.out, cskip.p)

\* C20: after any sequence of seek/read/write/flush/clear_cache calls, every
\* cached block is listed in modified or holds the backing stream's bytes in
\* [id * block_size, id * block_size + len).
C20_CacheCoherent ==
    last.status = "ok" =>
        \A id \in DOMAIN blocks :
            \/ id \in modified
            \/ blocks[id].data =
                   file_read(file, id * block_size, Len(blocks[id].data))

\* C21: whenever the tracked physical cursor is Some(p), the backing stream's
\* position is p, after any sequence of seek, read, write, flush and
\* clear_cache calls, so that a block fetch which skips the seek reads the
\* bytes of the block it asked for.
C21_TrackedCursorIsActual ==
    (last.status = "ok" /\ pcursor # None) => fpos = pcursor

\* the cached byte at logical position pos, or None when no cached block
\* holds that position
CachedAt(b, pos) ==
    IF (pos \div b.block_size) \in DOMAIN b.blocks
           /\ (pos % b.block_size) < Len(b.blocks[pos \div b.block_size].data)
        THEN b.blocks[pos \div b.block_size].data[(pos % b.block_size) + 1]
        ELSE None

\* what a write of buf that returned Ok(n) from state b into state a may have
\* done: buf[..n] is cached at [c, c + n), the logical cursor is c + n, and a
\* position outside [c, c + n) kept its cached byte, lost its block to the
\* overflow check, got the stream's byte by a block fetch, or is a zero of
\* the gap in front of c in a new block
WroteExactly(b, a, buf, n) ==
    /\ a.cursor = b.cursor + n
    /\ \A i \in 0..(n - 1) : CachedAt(a, b.cursor + i) = buf[i + 1]
    /\ \A pos \in 0..(MaxPos + MaxBlockSize) :
           (pos < b.cursor \/ pos >= b.cursor + n) =>
               \/ CachedAt(a, pos) = CachedAt(b, pos)
               \/ CachedAt(a, pos) = None
               \/ /\ CachedAt(b, pos) = None
                  /\ pos < Len(b.file)
                  /\ CachedAt(a, pos) = b.file[pos + 1]
               \/ /\ CachedAt(b, pos) = None
                  /\ pos >= Len(b.file)
                  /\ pos < b.cursor
                  /\ pos \div b.block_size = b.cursor \div b.block_size
                  /\ CachedAt(a, pos) = 0

\* the step is the call write(buf) and it returned Ok
WriteReturnedOk(buf) ==
    /\ Running
    /\ cursor + Len(buf) <= MaxPos + 1
    /\ write(St, buf).status = "ok"
    /\ last'.op = "write"
    /\ last'.ret = write(St, buf).ret
    /\ blocks' = write(St, buf).b.blocks
    /\ cursor' = write(St, buf).b.cursor

\* C22: a write that returns Ok(n) with the logical cursor at c stored exactly
\* buf[..n] at [c, c + n), advanced the logical cursor by exactly n, and
\* changed no cached byte outside [c, c + n) except for the zero fill of a gap
\* in a new block.
C22_WriteStoresExactlyReturned ==
    [][\A s \in {10, 20}, n \in 1..MaxWriteLen :
           WriteReturnedOk(MkBuf(s, n)) =>
               WroteExactly(St, write(St, MkBuf(s, n)).b, MkBuf(s, n),
                            write(St, MkBuf(s, n)).ret)]_vars

\* ------------------------------------------------------------------ failing write-back
\* The backing stream accepts q more bytes and answers every later F::write
\* with an error. Each operator returns the state, whether the call returned
\* Ok, the bytes the stream still accepts, and the blocks written in full.

\* FileBuffer::internal_write_block on such a stream
internal_write_block_upto(b, block, q, done) ==
    LET b1 == internal_cursor_seek(b, block * b.block_size)
        buf == b1.blocks[block].data
        n == Min(Len(buf), q)
        b2 == [b1 EXCEPT !.file = file_write(b1.file, b1.fpos, Slice(buf, 0, n)),
                         !.fpos = b1.fpos + n,
                         !.pcursor = IF n = 0 THEN b1.pcursor
                                     ELSE block * b.block_size + n]
    IN IF n = Len(buf)
       THEN [b |-> mark_clean(b2, block), ok |-> TRUE, q |-> q - n,
             done |-> done \cup {block}]
       ELSE [b |-> b2, ok |-> FALSE, q |-> 0, done |-> done]

\* FileBuffer::flush on such a stream
RECURSIVE flush_upto(_, _, _)
flush_upto(b, q, done) ==
    IF b.modified = {}
        THEN [b |-> purge_if_full(b), ok |-> TRUE, q |-> q, done |-> done]
    ELSE IF internal_write_block_upto(b, get_next_modified_block(b), q, done).ok
        THEN flush_upto(
                 internal_write_block_upto(b, get_next_modified_block(b), q, done).b,
                 internal_write_block_upto(b, get_next_modified_block(b), q, done).q,
                 internal_write_block_upto(b, get_next_modified_block(b), q, done).done)
    ELSE internal_write_block_upto(b, get_next_modified_block(b), q, done)

\* the loop of FileBuffer::flush_blocks on such a stream, after take_modified
RECURSIVE flush_blocks_upto(_, _, _, _)
flush_blocks_upto(b, todo, q, done) ==
    IF todo = {} THEN [b |-> b, ok |-> TRUE, q |-> q, done |-> done]
    ELSE LET block == CHOOSE m \in todo : \A o \in todo : m <= o
             pos == block * b.block_size
             b1 == get_block(b, block)
             buf == b.blocks[block].data
             n == Min(Len(buf), q)
             b2 == [b1 EXCEPT !.file = file_write(b.file, pos, Slice(buf, 0, n)),
                              !.fpos = pos + n]
         IN IF block \notin DOMAIN b.blocks
                THEN flush_blocks_upto(b, todo \ {block}, q, done)
            ELSE IF n = Len(buf)
                THEN flush_blocks_upto(b2, todo \ {block}, q - n, done \cup {block})
            ELSE [b |-> b2, ok |-> FALSE, q |-> 0, done |-> done]

\* FileBuffer::clear_cache on such a stream
clear_cache_upto(b, q) ==
    LET b0 == [b EXCEPT !.modified = {},
                        !.fpos = IF b.modified = {} THEN b.fpos
                                 ELSE get_next_modified_block(b) * b.block_size]
        r == flush_blocks_upto(b0, b.modified, q, {})
    IN IF r.ok
       THEN [r EXCEPT !.b = [(IF is_full(r.b) THEN purge_least_recently_used(r.b)
                              ELSE r.b) EXCEPT !.blocks = <<>>]]
       ELSE r

\* the ids of a set in ascending order
RECURSIVE Ascending(_)
Ascending(S) ==
    IF S = {} THEN <<>>
    ELSE <<CHOOSE m \in S : \A o \in S : m <= o>>
             \o Ascending(S \ {CHOOSE m \in S : \A o \in S : m <= o})

\* the bytes the stream accepts before it fails
MaxAccept == 4

\* Write::flush on a stream that fails after q bytes; last.out lists the
\* blocks written in full
FlushUpto ==
    \E q \in 0..MaxAccept :
        /\ Running
        /\ Store(flush_upto(St, q, {}).b)
        /\ last' = Record("flush", IF flush_upto(St, q, {}).ok THEN "ok" ELSE "err",
                          0, Ascending(flush_upto(St, q, {}).done))
        /\ UNCHANGED <<naive, acc>>

\* FileBuffer::clear_cache on a stream that fails after q bytes
ClearCacheUpto ==
    \E q \in 0..MaxAccept :
        /\ Running
        /\ Store(clear_cache_upto(St, q).b)
        /\ last' = Record("clear_cache",
                          IF clear_cache_upto(St, q).ok THEN "ok" ELSE "err",
                          0, Ascending(clear_cache_upto(St, q).done))
        /\ UNCHANGED <<naive, acc>>

FailNext ==
    \/ SeekStart
    \/ Write
    \/ FlushUpto
    \/ ClearCacheUpto

SpecFail == Init /\ [][FailNext]_vars

\* C23: a block id leaves modified only after its full contents were written
\* to the backing stream; when a write-back of flush or clear_cache fails part
\* way, every block not written in full is still in modified when the error
\* is returned.
C23_ModifiedUntilWritten ==
    [][last'.op \in {"flush", "clear_cache"} =>
           \A id \in modified \ modified' :
               \E i \in DOMAIN last'.out : last'.out[i] = id]_vars

\* ------------------------------------------------------------------ the overflow check
\* The overflow check on its own: purge_least_recently_used over every cache of
\* up to MaxCached blocks of one byte, every order of their last accesses,
\* every set of modified blocks among them, every max_blocks and ideal_blocks.
MaxCached == 4

\* the caches: each block stamped by a different access, the counter past them
Caches(ids) ==
    {[k \in ids |-> [data |-> <<k>>, access |-> stamp[k]]] :
        stamp \in {s \in [ids -> 0..(Cardinality(ids) - 1)] :
                      \A i, j \in ids : i # j => s[i] # s[j]}}

PurgeInit ==
    /\ block_size = 1
    /\ max_blocks \in 0..MaxMaxBlocks
    /\ ideal_blocks \in 0..max_blocks
    /\ \E ids \in SUBSET (0..(MaxCached - 1)) :
           /\ blocks \in Caches(ids)
           /\ modified \in SUBSET ids
           /\ access_count = Cardinality(ids)
    /\ cursor = 0 /\ pcursor = None /\ file = <<>> /\ fpos = 0 /\ naive = <<>>
    /\ nops = 0 /\ acc = <<>> /\ astate = Normal /\ fpend = None /\ want = <<>>
    /\ ConcIdle
    /\ CodecIdle
    /\ last = [op |-> "new", status |-> "ok", ret |-> 0, out |-> <<>>,
               pre_cursor |-> 0, pre_end |-> 0, pure |-> TRUE]

\* the overflow check as flush_blocks and read_buffered make it: last.ret is
\* the number of blocks it removed
OverflowCheck ==
    /\ nops = 0
    /\ Store(IF is_full(St) THEN purge_least_recently_used(St) ELSE St)
    /\ last' = Record("purge", "ok",
                      Cardinality(DOMAIN blocks) - Cardinality(DOMAIN blocks'), <<>>)
    /\ UNCHANGED <<naive, acc>>

SpecPurge == PurgeInit /\ [][OverflowCheck]_vars

\* C24: purge_least_recently_used never removes a block listed in modified,
\* whatever the cache holds, in whatever order its blocks were accessed and
\* however many of them are modified.
C24_PurgeKeepsModified ==
    [][last'.op = "purge" =>
           \A id \in modified \cap DOMAIN blocks : id \in DOMAIN blocks']_vars

\* the check removed a block while modified blocks were cached, and they stay
C24_Witness ==
    /\ last.op = "purge"
    /\ last.ret > 0
    /\ Cardinality(modified) >= 2
    /\ modified \subseteq DOMAIN blocks

C25_OnlyLastBlockShort ==
    last.status = "ok" =>
        \A id \in DOMAIN blocks :
            Len(blocks[id].data) < block_size =>
                /\ \A o \in DOMAIN blocks : o <= id
                /\ id * block_size + Len(blocks[id].data) = LogicalEnd(St)

\* ------------------------------------------------------------------ FileBuffer of buffer.rs
\* The FileBuffer that src/buffer.rs itself defines: it loads the blocks a call
\* covers up front, then works on the cache through Buffer::write.

\* FileBuffer::load_blocks, the loop over the blocks to load in ascending order
RECURSIVE load_loop(_, _)
load_loop(b, to_load) ==
    IF to_load = {} THEN b
    ELSE LET sect == CHOOSE m \in to_load : \A o \in to_load : m <= o
             buf == file_read(b.file, sect * b.block_size, b.block_size)
             b1 == insert([b EXCEPT !.fpos = sect * b.block_size + Len(buf)], sect, buf)
         IN IF Len(buf) < b.block_size THEN b1
            ELSE load_loop(b1, to_load \ {sect})

\* Buffer::iter_blocks and Buffer::to_load
to_load(b, position, len) ==
    {sect \in (position \div b.block_size)
                  ..(((position + len + b.block_size - 1) \div b.block_size) - 1) :
        sect \notin DOMAIN b.blocks}

\* FileBuffer::load_blocks
load_blocks(b, position, len) == load_loop(b, to_load(b, position, len))

\* Buffer::write, the loop that makes new blocks; checks says whether the
\* build panics on integer overflow (max_blocks - sect_index) or wraps
RECURSIVE Buffer_write_new(_, _, _, _, _, _)
Buffer_write_new(b, buf, offset, sect, sect_index, checks) ==
    IF offset >= Len(buf) THEN [b |-> b, status |-> "ok", ret |-> offset]
    ELSE LET rest == Len(buf) - offset
             to_write == IF sect_index > b.max_blocks THEN rest
                         ELSE Min(b.max_blocks - sect_index, rest)
             buffer == Zeros(sect_index) \o Slice(buf, offset, Len(buf))
             b1 == mark_modified(insert([b EXCEPT !.cursor = b.cursor + to_write],
                                        sect, buffer), sect)
         IN IF (sect_index > b.max_blocks /\ checks) \/ to_write # rest
                THEN [b |-> b, status |-> "panic", ret |-> offset]
            ELSE Buffer_write_new(b1, buf, offset + to_write, sect + 1, 0, checks)

\* Buffer::write, the loop over the cached blocks
RECURSIVE Buffer_write_cached(_, _, _, _, _, _)
Buffer_write_cached(b, buf, offset, sect, sect_index, checks) ==
    IF sect \notin DOMAIN b.blocks
        THEN Buffer_write_new(b, buf, offset, sect, sect_index, checks)
    ELSE IF sect_index > Len(b.blocks[sect].data)
        THEN [b |-> get_block(b, sect), status |-> "panic", ret |-> offset]
    ELSE LET buffer == b.blocks[sect].data
             to_write == Min(Len(buffer) - sect_index, Len(buf) - offset)
             offset1 == offset + to_write
             to_extend == IF offset1 < Len(buf) /\ Len(buffer) < b.block_size
                          THEN Min(b.block_size - Len(buffer), Len(buf) - offset1)
                          ELSE 0
             buffer1 == Patch(buffer, sect_index, Slice(buf, offset, offset1))
                            \o Slice(buf, offset1, offset1 + to_extend)
             b1 == [mark_modified(get_block(b, sect), sect) EXCEPT
                        !.blocks[sect].data = buffer1,
                        !.cursor = b.cursor + to_write + to_extend]
         IN IF offset1 + to_extend = Len(buf)
                THEN [b |-> b1, status |-> "ok", ret |-> Len(buf)]
            ELSE Buffer_write_cached(b1, buf, offset1 + to_extend, sect + 1, 0, checks)

\* Buffer::write
Buffer_write(b, buf, checks) ==
    Buffer_write_cached(b, buf, 0, b.cursor \div b.block_size,
                        b.cursor % b.block_size, checks)

\* FileBuffer::flush_blocks of buffer.rs
flush_modified(b) ==
    LET b0 == [b EXCEPT !.modified = {},
                        !.fpos = IF b.modified = {} THEN b.fpos
                                 ELSE get_next_modified_block(b) * b.block_size]
        b1 == flush_blocks(b0, b.modified)
    IN IF is_full(b1) THEN purge_least_recently_used(b1) ELSE b1

\* FileBuffer::write of buffer.rs
FileBuffer_write(b, buf, checks) ==
    LET r == Buffer_write(load_blocks(b, b.cursor, Len(buf)), buf, checks)
    IN IF r.status = "ok" /\ is_full(r.b) THEN [r EXCEPT !.b = flush_modified(r.b)]
       ELSE r

\* Write::write(buf) on the FileBuffer of buffer.rs
BufferWrite ==
    \E s \in {10, 20}, n \in 1..MaxWriteLen, checks \in BOOLEAN :
        /\ Running
        /\ cursor + n <= MaxPos + 1
        /\ Store(FileBuffer_write(St, MkBuf(s, n), checks).b)
        /\ last' = Record("write", FileBuffer_write(St, MkBuf(s, n), checks).status,
                          FileBuffer_write(St, MkBuf(s, n), checks).ret, <<>>)
        /\ UNCHANGED <<naive, acc>>

BufferNext ==
    \/ SeekStart
    \/ BufferWrite

SpecBuffer == Init /\ [][BufferNext]_vars

\* C26: every cached block holds at most block_size bytes after any sequence
\* of calls, for every block_size and max_blocks, through Buffer::write of
\* buffer.rs as through FileBuffer::write of buffer/sync_buf.rs.
C26_BlocksWithinBlockSize ==
    last.status = "ok" =>
        \A id \in DOMAIN blocks : Len(blocks[id].data) <= block_size

\* C28: modified is a subset of the keys of blocks in every state reachable
\* through read, write, seek, flush, clear_cache and the overflow check, so
\* that a flush never meets a modified id without a cached block.
C28_ModifiedAreCached == modified \subseteq DOMAIN blocks

\* a write ended with more than max_blocks blocks cached, so its overflow
\* check ran, and the blocks it left are the modified ones
C28_Witness ==
    /\ last.op = "write"
    /\ last.status = "ok"
    /\ max_blocks > 0
    /\ Cardinality(DOMAIN blocks) > max_blocks
    /\ Cardinality(modified) >= 2
    /\ access_count > Cardinality(DOMAIN blocks)

\* C29: completing a block read that was left pending never replaces a block
\* that is in the cache: when block b was inserted or modified by a write
\* while Reading{b} was pending, the poll that resumes the read leaves the
\* cached bytes of b as the write left them.
C29_ResumedReadKeepsCachedBlock ==
    [][(/\ astate.tag = "Reading"
        /\ astate.block \in DOMAIN blocks
        /\ last'.op = "poll_read"
        /\ astate.block \in DOMAIN blocks') =>
           blocks'[astate.block].data = blocks[astate.block].data]_vars

\* C30: a call rejected with an error because the pending state disagrees
\* with the operation asked for (a block read while Writing, a block write
\* while Reading, any block transfer while Closing) leaves the operation
\* state as it found it: the pending record is not discarded.
C30_RejectedCallKeepsState ==
    [][(/\ astate.tag \in {"Reading", "Writing", "Closing"}
        /\ last'.op \in {"poll_read", "poll_write", "poll_flush"}
        /\ last'.status = "err") =>
           astate' = astate]_vars

\* ------------------------------------------------------------------ shutdown
\* AsyncWrite::poll_shutdown; F::poll_shutdown is one operation of the backing
\* stream, Pending when the poll has no fuel left
poll_shutdown(b) ==
    IF b.state.tag = "Closing"
        THEN IF b.fuel = 0 THEN Pending(b)
             ELSE Ready([b EXCEPT !.fuel = b.fuel - 1], 0)
    ELSE IF poll_flush(b).poll # "ready" THEN poll_flush(b)
    ELSE IF poll_flush(b).b.fuel = 0
        THEN Pending([poll_flush(b).b EXCEPT !.state = Closing])
    ELSE Ready([poll_flush(b).b EXCEPT !.state = Closing,
                                       !.fuel = poll_flush(b).b.fuel - 1], 0)

\* AsyncWrite::poll_shutdown
APollShutdown ==
    \E fuel \in 0..MaxFuel :
        /\ ARunning
        /\ AStore(poll_shutdown(ASt(fuel)).b)
        /\ last' = ARecord("poll_shutdown", poll_shutdown(ASt(fuel)))
        /\ UNCHANGED want

CloseNext ==
    \/ AStartSeek
    \/ APollComplete
    \/ APollRead
    \/ APollWrite
    \/ APollFlush
    \/ APollShutdown

\* the cooperative buffer with shutdown among its calls
SpecClose == AInit /\ [][CloseNext]_vars

\* C31: Closing is absorbing: once shutdown has completed its flush and set
\* the state to Closing, no start_seek, poll_complete, poll_read, poll_write
\* or poll_flush call changes the state to anything other than Closing.
C31_ClosingIsAbsorbing ==
    [][astate.tag = "Closing" => astate'.tag = "Closing"]_vars

\* ------------------------------------------------------------------ blocking against cooperative
\* the cooperative buffer in the blocking buffer's state b: no transfer
\* pending, and a backing stream that never returns Pending during the call
NeverPending(b) ==
    [blocks |-> b.blocks, modified |-> b.modified, cursor |-> b.cursor,
     access_count |-> b.access_count, block_size |-> b.block_size,
     max_blocks |-> b.max_blocks, ideal_blocks |-> b.ideal_blocks,
     pcursor |-> b.pcursor, file |-> b.file, fpos |-> b.fpos,
     state |-> Normal, fpend |-> None,
     fuel |-> 4 * (MaxPos + MaxWriteLen + MaxBlockSize)]

\* a blocking call that ended in state s with status and value, and a poll
\* that returned p, agree on the result, the cached blocks, modified, the
\* logical cursor and the stream's bytes
SameOutcome(s, status, val, p) ==
    /\ p.poll = (IF status = "ok" THEN "ready" ELSE status)
    /\ status = "ok" =>
           /\ p.val = val
           /\ DOMAIN p.b.blocks = DOMAIN s.blocks
           /\ \A k \in DOMAIN s.blocks : p.b.blocks[k].data = s.blocks[k].data
           /\ p.b.modified = s.modified
           /\ p.b.cursor = s.cursor
           /\ p.b.file = s.file

\* C32: the blocking FileBuffer and the cooperative FileBufferAsync are the
\* same block state machine: from equal states, with a backing stream that
\* never returns Pending, every read, write and flush returns the same result
\* and leaves the same cached blocks, modified set, logical cursor and stream
\* bytes, also for a write that creates a new block at a non-zero offset
\* beyond the end of the file.
C32_AsyncMatchesSync ==
    last.status # "panic" =>
        /\ \A s \in {10, 20}, n \in 1..MaxWriteLen :
               SameOutcome(write(St, MkBuf(s, n)).b, write(St, MkBuf(s, n)).status,
                           write(St, MkBuf(s, n)).ret,
                           poll_write(NeverPending(St), MkBuf(s, n)))
        /\ \A n \in 1..MaxReadLen :
               SameOutcome(read(St, n).b, read(St, n).status, read(St, n).out,
                           poll_read(NeverPending(St), n))
        /\ SameOutcome(flush(St), "ok", 0, poll_flush(NeverPending(St)))

\* ------------------------------------------------------------------ failed calls and the cursor
\* C33: a failed operation does not advance the logical cursor: when an Engine
\* parse call (here parse_item_n on a newly opened Engine, the reader at 0)
\* returns an error, the reader's cursor equals its value before the call.
C33_FailedCallKeepsCursor ==
    (eres.op = "parse_item_n" /\ eres.res.out = "err") => eres.res.eng = 0

\* ------------------------------------------------------------------ the frame of seek
\* C34: seek changes only the logical cursor: for SeekFrom::Start, Current
\* and End alike it performs no operation on the backing stream and leaves
\* the cached blocks, the modified set, the access counters and the physical
\* cursor unchanged.
C34_SeekMovesOnlyCursor ==
    [][(nops' = nops + 1 /\ last'.op = "seek") =>
           UNCHANGED <<blocks, modified, access_count, pcursor, file, fpos>>]_vars

\* ------------------------------------------------------------------ FileBufferBuilder
\* the values given to the builder's setters
BlockSizes == {0, 1, 512, 2048}
BlockCounts == {0, 1, 5}
CacheSizes == {0, 1024, 8192}

\* FileBufferBuilder::new
FileBufferBuilder_new ==
    [op |-> "builder", status |-> "ok", block_size |-> None, max_blocks |-> None,
     ideal_blocks |-> None, max_cache |-> None, ideal_cache |-> None]

\* the default of ideal_blocks in FileBufferBuilder::build
default_ideal_blocks(bs, mb) ==
    IF 1048576 \div bs <= mb THEN mb - (1048576 \div bs)
    ELSE IF 1024 \div bs <= mb THEN mb - (1024 \div bs)
    ELSE mb - (mb \div 5)

\* max_blocks of FileBufferBuilder::build
build_max_blocks(o, bs) ==
    IF o.max_blocks # None THEN o.max_blocks
    ELSE (IF o.max_cache # None THEN o.max_cache ELSE 1073741824) \div bs

\* ideal_blocks of FileBufferBuilder::build
build_ideal_blocks(o, bs) ==
    IF o.ideal_blocks # None THEN o.ideal_blocks
    ELSE IF o.ideal_cache # None THEN o.ideal_cache \div bs
    ELSE default_ideal_blocks(bs, build_max_blocks(o, bs))

\* FileBufferBuilder::build: [panic] when it divides by a block size of 0,
\* or the Buffer's block_size, max_blocks and ideal_blocks
build(o) ==
    LET bs == IF o.block_size # None THEN o.block_size ELSE 512
    IN IF bs = 0 /\ (o.max_blocks = None \/ o.ideal_blocks = None)
           THEN [status |-> "panic", block_size |-> bs, max_blocks |-> 0,
                 ideal_blocks |-> 0]
       ELSE [status |-> "ok", block_size |-> bs,
             max_blocks |-> build_max_blocks(o, bs),
             ideal_blocks |-> build_ideal_blocks(o, bs)]

BuildInit ==
    /\ BufIdle
    /\ ConcIdle
    /\ CodecIdle
    /\ ItemIdle

\* the builder is in `last` until it is built
Building == last.op = "builder"

BuilderNew ==
    /\ last.op = "new"
    /\ last' = FileBufferBuilder_new
    /\ UNCHANGED <<blocks, modified, cursor, access_count, block_size, max_blocks,
                   ideal_blocks, pcursor, file, fpos, naive, nops, acc, astate,
                   fpend, want>>
    /\ UNCHANGED <<concvars, codecvars, itemvars>>

Setter(o) ==
    /\ Building
    /\ last' = o
    /\ UNCHANGED <<blocks, modified, cursor, access_count, block_size, max_blocks,
                   ideal_blocks, pcursor, file, fpos, naive, nops, acc, astate,
                   fpend, want>>
    /\ UNCHANGED <<concvars, codecvars, itemvars>>

with_block_size == \E v \in BlockSizes : Setter([last EXCEPT !.block_size = v])

with_max_blocks ==
    \E v \in BlockCounts : Setter([last EXCEPT !.max_blocks = v, !.max_cache = None])

with_max_cache ==
    \E v \in CacheSizes : Setter([last EXCEPT !.max_cache = v, !.max_blocks = None])

with_ideal_blocks ==
    \E v \in BlockCounts : Setter([last EXCEPT !.ideal_blocks = v, !.ideal_cache = None])

with_ideal_cache ==
    \E v \in CacheSizes : Setter([last EXCEPT !.ideal_cache = v, !.ideal_blocks = None])

\* FileBufferBuilder::build, the Buffer it returns
Build ==
    /\ Building
    /\ block_size' = build(last).block_size
    /\ max_blocks' = build(last).max_blocks
    /\ ideal_blocks' = build(last).ideal_blocks
    /\ last' = [last EXCEPT !.op = "build", !.status = build(last).status]
    /\ UNCHANGED <<blocks, modified, cursor, access_count, pcursor, file, fpos,
                   naive, nops, acc, astate, fpend, want>>
    /\ UNCHANGED <<concvars, codecvars, itemvars>>

BuildNext ==
    \/ BuilderNew
    \/ with_block_size
    \/ with_max_blocks
    \/ with_max_cache
    \/ with_ideal_blocks
    \/ with_ideal_cache
    \/ Build

SpecBuild == BuildInit /\ [][BuildNext]_vars

\* C35: for every configuration the builder accepts, the built buffer has
\* ideal_blocks <= max_blocks, so that for every number n of cached blocks
\* at which the overflow check purges (n > max_blocks) the subtraction
\* n - ideal_blocks does not underflow.
C35_IdealWithinMax ==
    (last.op = "build" /\ last.status = "ok") =>
        /\ ideal_blocks <= max_blocks
        /\ \A n \in (max_blocks + 1)..(max_blocks + 2) : n - ideal_blocks >= 0

\* ------------------------------------------------------------------ the length of a mark
\* C36: for every mark m parsed from a stream, m.mark_len() terminates and
\* equals the number of bytes Mark::parse read for m: the id byte, the nested
\* marks and the size fields; m is the mark at the location given to
\* parse_item_n.
C36_MarkLenIsParsedLen ==
    (eres.op = "parse_item_n" /\ Mark_parse_at(efile, eres.location.off).out = "ok") =>
        /\ mark_len_returns(Mark_parse_at(efile, eres.location.off).mark)
        /\ mark_len(Mark_parse_at(efile, eres.location.off).mark)
               = Mark_parse_at(efile, eres.location.off).eng - eres.location.off

\* ------------------------------------------------------------------ Size, the full u64 range
\* a u64 as its ten 7-bit groups, least significant first; group 10 holds
\* bit 63 alone
U64(g) == [i \in 1..10 |-> IF i <= Len(g) THEN g[i] ELSE 0]

\* self.0 > 0
NonZero(value) == \E i \in 1..10 : value[i] # 0

\* value >> 7
Shr7(value) == [i \in 1..10 |-> IF i < 10 THEN value[i + 1] ELSE 0]

\* value | (v << (7 * i)), the bits 7i .. 7i + 6 of value being 0
OrGroup(value, i, v) == [value EXCEPT ![i + 1] = v]

\* the loop of Size::parse with the check of the tenth byte at b > 127
RECURSIVE Size_parse_u64_loop_lax(_, _, _, _)
Size_parse_u64_loop_lax(f, pos, i, value) ==
    WhenOk(read_u8(f, pos), LAMBDA r :
        IF i = 9 /\ r.mark[1] > 127 THEN InvalidMark(r.eng)
        ELSE IF r.mark[1] < 128
            THEN Parsed(<<OrGroup(value, i, r.mark[1] % 128)>>, r.eng)
        ELSE Size_parse_u64_loop_lax(f, r.eng, i + 1, OrGroup(value, i, r.mark[1] % 128)))

\* the loop of Size::parse; the reader's position counts the bytes read
RECURSIVE Size_parse_u64_loop(_, _, _, _)
Size_parse_u64_loop(f, pos, i, value) ==
    WhenOk(read_u8(f, pos), LAMBDA r :
        IF i = 9 /\ r.mark[1] > 1 THEN InvalidMark(r.eng)
        ELSE IF r.mark[1] < 128
            THEN Parsed(<<OrGroup(value, i, r.mark[1] % 128)>>, r.eng)
        ELSE Size_parse_u64_loop(f, r.eng, i + 1, OrGroup(value, i, r.mark[1] % 128)))

\* Size::parse on a reader over the bytes f
Size_parse_u64(f) == Size_parse_u64_loop(f, 0, 0, U64(<<>>))

\* the loop of Size::write into a writer that takes accept bytes, or any
\* number of them (None): the condition is on self.0, which the loop never
\* changes
RECURSIVE Size_write_loop(_, _, _, _)
Size_write_loop(self0, value, bytes, accept) ==
    IF ~NonZero(self0) THEN [out |-> "ok", bytes |-> bytes, written |-> Len(bytes)]
    ELSE IF accept = None THEN [out |-> "hang", bytes |-> bytes, written |-> Len(bytes)]
    ELSE IF Len(bytes) >= accept
        THEN [out |-> "err", bytes |-> bytes, written |-> Len(bytes)]
    ELSE Size_write_loop(self0, Shr7(value),
                         Append(bytes, value[1] + (IF NonZero(Shr7(value)) THEN 128 ELSE 0)),
                         accept)

\* Size::write
Size_write(value, accept) == Size_write_loop(value, value, <<>>, accept)

\* Size::len over the full range: whether it returns, and what
Size_len_u64_returns(value) == ~NonZero(value)
Size_len_u64(value) == 0

\* k bytes c
Bytes(k, c) == [i \in 1..k |-> c]

\* the streams given to Size::parse: up to ten continuation bytes, then the
\* end of the stream or a last byte
SizeStreams ==
    {Bytes(k, c) \o t : k \in 0..10, c \in {128, 129, 255},
                        t \in {<<>>, <<0>>, <<1>>, <<2>>, <<127>>, <<128, 0>>}}

\* the values given to Size::write: 0, 1, 127, 128, 300, 2^63 and 2^64 - 1
SizeValues ==
    {U64(<<>>), U64(<<1>>), U64(<<127>>), U64(<<0, 1>>), U64(<<44, 2>>),
     U64(<<0, 0, 0, 0, 0, 0, 0, 0, 0, 1>>),
     U64(<<127, 127, 127, 127, 127, 127, 127, 127, 127, 1>>)}

\* the writers given to Size::write: a Vec (None) or a slice of so many bytes
SizeWriters == {None, 0, 1, 2, 10, 11}

SizeInit ==
    /\ cval \in SizeValues
    /\ cbytes \in {[out |-> "given", bytes |-> f, written |-> 0] : f \in SizeStreams}
    /\ cres = Bad("err", 0)
    /\ cpc = "size"
    /\ SkipIdle
    /\ BufIdle
    /\ ConcIdle

\* Size::parse(&mut f) on the given stream
SizeParse ==
    /\ cpc = "size"
    /\ cres' = Size_parse_u64(cbytes.bytes)
    /\ cpc' = "parsed"
    /\ UNCHANGED <<cval, cbytes>>
    /\ UNCHANGED <<bufvars, concvars, skipvars, itemvars>>

\* Size(v).write(&mut w)
SizeWrite ==
    \E accept \in SizeWriters :
        /\ cpc = "size"
        /\ cbytes' = Size_write(cval, accept)
        /\ cpc' = "written"
        /\ UNCHANGED <<cval, cres>>
        /\ UNCHANGED <<bufvars, concvars, skipvars, itemvars>>

\* Size::parse on the bytes a write that returned left in its writer
SizeReparse ==
    /\ cpc = "written"
    /\ cbytes.out # "hang"
    /\ cres' = Size_parse_u64(cbytes.bytes)
    /\ cpc' = "reread"
    /\ UNCHANGED <<cval, cbytes>>
    /\ UNCHANGED <<bufvars, concvars, skipvars, itemvars>>

SizeNext == SizeParse \/ SizeWrite \/ SizeReparse

SpecSize == SizeInit /\ [][SizeNext]_vars

\* C37: Size round trip: for every u64 value v, 0 included, Size(v).write
\* terminates and emits bytes from which Size::parse returns the value v and
\* a consumed-byte count equal to the number of bytes written and to
\* Size(v).len().
C37_SizeRoundTrip ==
    /\ cpc \in {"written", "reread"} => cbytes.out = "ok"
    /\ cpc = "reread" =>
           /\ cres.out = "ok"
           /\ cres.mark = <<cval>>
           /\ cres.eng = cbytes.written
           /\ Size_len_u64_returns(cval)
           /\ cres.eng = Size_len_u64(cval)

\* the encoding at the head of f is wider than 64 bits: nine continuation
\* bytes, and a tenth byte with a payload bit above bit 63 or with the
\* continuation bit
WiderThan64(f) ==
    /\ Len(f) >= 10
    /\ \A i \in 1..9 : f[i] >= 128
    /\ (f[10] % 128 > 1 \/ f[10] >= 128)

\* C38: Size::parse reads at most 10 bytes, returns the value whose 7-bit
\* groups are the payloads of the bytes read, least significant first,
\* together with the number of bytes consumed, and returns InvalidMark
\* exactly when the encoded value would exceed 64 bits.
C38_SizeParseValue ==
    cpc = "parsed" =>
        /\ cres.eng <= 10
        /\ cres.out = "ok" =>
               /\ cres.eng >= 1
               /\ cbytes.bytes[cres.eng] < 128
               /\ \A i \in 1..(cres.eng - 1) : cbytes.bytes[i] >= 128
               /\ \A i \in 1..10 :
                      cres.mark[1][i] = IF i <= cres.eng THEN cbytes.bytes[i] % 128 ELSE 0
        /\ (cres.out = "err" /\ cres.mark = <<"InvalidMark">>) <=> WiderThan64(cbytes.bytes)

\* a size of ten bytes with bit 63 set was parsed
C38_Witness ==
    /\ cpc = "parsed"
    /\ cres.out = "ok"
    /\ cres.eng = 10
    /\ cres.mark[1][10] = 1

\* ------------------------------------------------------------------ data_len over the full u64 range
\* Size::parse on the reader at pos of the stream f
Size_parse_u64_at(f, pos) == Size_parse_u64_loop(f, pos, 0, U64(<<>>))

\* a width of 1, 2, 4 or 8 bytes `as u64`
Width(b) == U64(<<b>>)

RECURSIVE Mark_parse_u64_at(_, _)

\* the match of Mark::parse on the id byte, the reader at p, the sizes over
\* the full u64 range
mark_of_id_u64(f, id, p) ==
    CASE IdOf(id) = NULL_ID -> Parsed(<<"Null">>, p)
      [] IdOf(id) = UNSIGNED_ID -> Parsed(<<"Unsigned", len_b(id)>>, p)
      [] IdOf(id) = SIGNED_ID -> Parsed(<<"Signed", len_b(id)>>, p)
      [] IdOf(id) = FLOAT_ID -> Parsed(<<"Float", len_b(id)>>, p)
      [] IdOf(id) = CHAR_ID -> Parsed(<<"Char", len_b(id)>>, p)
      [] IdOf(id) = STRING_ID ->
             WhenOk(Size_parse_u64_at(f, p), LAMBDA n : Parsed(<<"String", n.mark[1]>>, n.eng))
      [] IdOf(id) = ARRAY_ID ->
             WhenOk(Mark_parse_u64_at(f, p), LAMBDA v :
             WhenOk(Size_parse_u64_at(f, v.eng), LAMBDA n :
                 Parsed(<<"Array", v.mark, n.mark[1]>>, n.eng)))
      [] IdOf(id) = LIST_ID ->
             WhenOk(Size_parse_u64_at(f, p), LAMBDA n : Parsed(<<"List", n.mark[1]>>, n.eng))
      [] IdOf(id) = STRUCT_ID ->
             WhenOk(Mark_parse_u64_at(f, p), LAMBDA k :
             WhenOk(Mark_parse_u64_at(f, k.eng), LAMBDA v :
             WhenOk(Size_parse_u64_at(f, v.eng), LAMBDA n :
                 Parsed(<<"Struct", k.mark, v.mark, n.mark[1]>>, n.eng))))
      [] IdOf(id) = MAP_ID ->
             WhenOk(Size_parse_u64_at(f, p), LAMBDA n : Parsed(<<"Map", n.mark[1]>>, n.eng))
      [] IdOf(id) = ENUM_ID ->
             WhenOk(Mark_parse_u64_at(f, p), LAMBDA v :
                 Parsed(<<"Enum", len_b(id), v.mark>>, v.eng))
      [] IdOf(id) = SPACE_ID -> Parsed(<<"Space">>, p)
      [] IdOf(id) = PADDING_ID ->
             WhenOk(Size_parse_u64_at(f, p), LAMBDA n : Parsed(<<"Padding", n.mark[1]>>, n.eng))
      [] IdOf(id) = POINTER_ID -> Parsed(<<"Pointer", len_b(id)>>, p)
      [] IdOf(id) = RC_ID ->
             WhenOk(Mark_parse_u64_at(f, p), LAMBDA v :
                 Parsed(<<"Rc", len_b(id), v.mark>>, v.eng))
      [] IdOf(id) = HEAP_ID ->
             WhenOk(Size_parse_u64_at(f, p), LAMBDA n : Parsed(<<"Heap", n.mark[1]>>, n.eng))
      [] OTHER -> InvalidMark(p)

\* Mark::parse, the sizes over the full u64 range
Mark_parse_u64_at(f, pos) ==
    WhenOk(read_u8(f, pos), LAMBDA r : mark_of_id_u64(f, r.mark[1], r.eng))

\* group k (from 0) of a u64, 0 above bit 63
GroupAt(a, k) == IF k <= 9 THEN a[k + 1] ELSE 0

RECURSIVE ConvFrom(_, _, _, _), MulCarry(_, _, _), AddCarry(_, _, _)

\* the sum of a_i * b_(k - i) for i = from .. k
ConvFrom(a, b, k, from) ==
    IF from > k THEN 0
    ELSE GroupAt(a, from) * GroupAt(b, k - from) + ConvFrom(a, b, k, from + 1)

\* the carry into group k of the exact product a * b
MulCarry(a, b, k) ==
    IF k = 0 THEN 0 ELSE (ConvFrom(a, b, k - 1, 0) + MulCarry(a, b, k - 1)) \div 128

\* group k of the exact product a * b
MulGroup(a, b, k) == (ConvFrom(a, b, k, 0) + MulCarry(a, b, k)) % 128

\* a * b on u64: the product modulo 2^64, and whether the exact product is
\* 2^64 or more
MulU64(a, b) ==
    [v |-> [i \in 1..10 |-> IF i < 10 THEN MulGroup(a, b, i - 1)
                            ELSE MulGroup(a, b, 9) % 2],
     over |-> MulGroup(a, b, 9) >= 2 \/ \E k \in 10..20 : MulGroup(a, b, k) # 0]

\* the carry into group k of the exact sum a + b
AddCarry(a, b, k) ==
    IF k = 0 THEN 0
    ELSE (GroupAt(a, k - 1) + GroupAt(b, k - 1) + AddCarry(a, b, k - 1)) \div 128

\* group k of the exact sum a + b
AddGroup(a, b, k) == (GroupAt(a, k) + GroupAt(b, k) + AddCarry(a, b, k)) % 128

\* a + b on u64: the sum modulo 2^64, and whether the exact sum is 2^64 or more
AddU64(a, b) ==
    [v |-> [i \in 1..10 |-> IF i < 10 THEN AddGroup(a, b, i - 1)
                            ELSE AddGroup(a, b, 9) % 2],
     over |-> AddGroup(a, b, 9) >= 2 \/ AddGroup(a, b, 10) # 0]

RECURSIVE data_len_u64(_)

\* Mark::data_len on u64: the value of a build that wraps, and whether an
\* addition or multiplication on the way overflowed
data_len_u64(mark) ==
    CASE mark[1] \in {"Unsigned", "Signed", "Float", "Char", "Pointer"} ->
             [v |-> Width(mark[2]), over |-> FALSE]
      [] mark[1] \in {"String", "List", "Map", "Padding", "Heap"} ->
             [v |-> mark[2], over |-> FALSE]
      [] mark[1] = "Array" ->
             [v |-> MulU64(data_len_u64(mark[2]).v, mark[3]).v,
              over |-> data_len_u64(mark[2]).over
                           \/ MulU64(data_len_u64(mark[2]).v, mark[3]).over]
      [] mark[1] = "Struct" ->
             [v |-> MulU64(AddU64(data_len_u64(mark[2]).v, data_len_u64(mark[3]).v).v,
                           mark[4]).v,
              over |-> \/ data_len_u64(mark[2]).over \/ data_len_u64(mark[3]).over
                       \/ AddU64(data_len_u64(mark[2]).v, data_len_u64(mark[3]).v).over
                       \/ MulU64(AddU64(data_len_u64(mark[2]).v, data_len_u64(mark[3]).v).v,
                                 mark[4]).over]
      [] mark[1] \in {"Enum", "Rc"} ->
             [v |-> AddU64(Width(mark[2]), data_len_u64(mark[3]).v).v,
              over |-> data_len_u64(mark[3]).over
                           \/ AddU64(Width(mark[2]), data_len_u64(mark[3]).v).over]
      [] OTHER -> [v |-> U64(<<>>), over |-> FALSE]

\* the counts written after an element mark: 0, 1, 2, 128, 2^61, 2^62,
\* 2^63 and 2^64 - 1, and a count wider than 64 bits
CountBytes ==
    {<<0>>, <<1>>, <<2>>, <<128, 1>>, Bytes(8, 128) \o <<32>>, Bytes(8, 128) \o <<64>>,
     Bytes(9, 128) \o <<1>>, Bytes(9, 255) \o <<1>>, Bytes(9, 128) \o <<2>>}

\* the element, key and value marks: Null, Unsigned of 1, 2 and 8 bytes, a
\* String of 3 bytes
ElementBytes == {<<192>>, <<100>>, <<101>>, <<103>>, <<84, 3>>}

\* the streams of the marks: an Array of an element and a count, a Struct
\* of a key, a value and a count, whole or cut before the last byte
WideMarkFiles ==
    {<<64>> \o v \o n : v \in ElementBytes, n \in CountBytes}
        \cup {<<72>> \o k \o v \o n : k \in {<<100>>, <<103>>}, v \in ElementBytes,
                                      n \in CountBytes}
        \cup {<<64>> \o v \o Bytes(k, 128) : v \in {<<100>>}, k \in 0..2}

WideInit ==
    /\ efile \in WideMarkFiles
    /\ eres = [op |-> "none"]
    /\ Quiet

\* Mark::parse on a reader over the stream
ParseWideMark ==
    /\ eres.op = "none"
    /\ eres' = [op |-> "Mark::parse", res |-> Mark_parse_u64_at(efile, 0)]
    /\ UNCHANGED efile
    /\ UNCHANGED <<bufvars, concvars, codecvars>>

\* mark.data_len() on the mark parsed, in a build that checks overflow
\* (debug: it panics) or one that wraps (release)
DataLen ==
    \E build_checks \in BOOLEAN :
        /\ eres.op = "Mark::parse"
        /\ eres.res.out = "ok"
        /\ eres' = [op |-> "data_len", res |-> eres.res,
                    out |-> IF data_len_u64(eres.res.mark).over /\ build_checks
                                THEN "panic" ELSE "ok",
                    len |-> data_len_u64(eres.res.mark).v,
                    wrapped |-> data_len_u64(eres.res.mark).over]
        /\ UNCHANGED efile
        /\ UNCHANGED <<bufvars, concvars, codecvars>>

WideNext == ParseWideMark \/ DataLen

SpecWide == WideInit /\ [][WideNext]_vars

\* C39: a mark whose data_len would overflow u64 (an Array with count *
\* element data_len, or a Struct with count * (key data_len + value
\* data_len), of 2^64 or more) is rejected at parse time with InvalidMark,
\* and data_len never returns a value wrapped modulo 2^64.
C39_OverflowRejectedAtParse ==
    /\ (eres.op = "Mark::parse" /\ eres.res.out = "ok") =>
           ~data_len_u64(eres.res.mark).over
    /\ (eres.op = "data_len" /\ eres.out = "ok") => ~eres.wrapped

\* ------------------------------------------------------------------ List shells
\* the children of the lists: Null, an Unsigned of one and of two bytes
ChildBytes == {<<192>>, <<100, 7>>, <<101, 1, 2>>}

\* the streams: a List mark with the length of its region, the region of at
\* most MaxFileItems children, and nothing or one item after the region
ListFiles ==
    {<<LIST_ID, Len(Flatten(items))>> \o Flatten(items) \o after :
         items \in UNION {[1..k -> ChildBytes] : k \in 0..MaxFileItems},
         after \in {<<>>, <<192>>}}

ListInit == OpenedOn(ListFiles)

ListNext == \E full \in BOOLEAN : ParseData(full)

SpecList == ListInit /\ [][ListNext]_vars

\* List::parse and List::parse_full on the region of the List at 0
ShallowList == Data_parse(efile, 2, Mark_parse_at(efile, 0).mark)
FullList == Data_parse_full(efile, 2, Mark_parse_at(efile, 0).mark)

\* C40: for every well-formed List data region of length L, List::parse and
\* List::parse_full record the same number of children with the same marks
\* and locations, child i at start + the sum of total_len of the children
\* before it; for L = 0 both return zero children without reading beyond the
\* region.
C40_ShallowListAsFull ==
    eres.op \in {"parse", "parse_full"} =>
        /\ ShallowList.out = "ok" /\ FullList.out = "ok"
        /\ Len(ShallowList.mark.items) = Len(FullList.mark.items)
        /\ \A i \in 1..Len(FullList.mark.items) :
               /\ ShallowList.mark.items[i].mark = FullList.mark.items[i].mark
               /\ ShallowList.mark.items[i].location = FullList.mark.items[i].location
               /\ FullList.mark.items[i].location =
                      IF i = 1 THEN 2
                      ELSE FullList.mark.items[i - 1].location
                               + total_len(FullList.mark.items[i - 1].mark)
        /\ efile[2] = 0 =>
               /\ ShallowList.mark.items = <<>> /\ FullList.mark.items = <<>>
               /\ ShallowList.eng = 2 /\ FullList.eng = 2

====
